---- MODULE Spec2Model ----
(***************************************************************************)
(* Lifecycle controller of the SWMM engine (swmm5.c: swmm_open, swmm_start,*)
(* swmm_step, swmm_stride, swmm_end, swmm_report, swmm_close) and the      *)
(* error context of the binary output reader (errormanager.c,              *)
(* swmm_output.c).                                                         *)
(*                                                                         *)
(* Time.  The engine keeps its clocks as C doubles in milliseconds and its *)
(* steps as doubles in seconds.  The model counts time in ticks, with      *)
(* TicksPerMs ticks to the millisecond, so that a routing step that is not *)
(* a whole number of milliseconds can be told from one that is.            *)
(* ElapsedTime (decimal days in the code) is kept as the number of ticks   *)
(* it was computed from: NewRoutingTime / MSECperDAY is 0 exactly when     *)
(* NewRoutingTime is 0.                                                    *)
(***************************************************************************)
EXTENDS Integers, Sequences, FiniteSets, TLC

VARIABLES
    eng,      \* the engine's file-scope and global variables (swmm5.c)
    pc,       \* position of the one API call in flight: "idle" between calls
    loc,      \* locals of swmm_stride while it is in flight
    pre,      \* what the last API call found on entry (see Entry)
    last,     \* the last API call: operation, return value, work performed
    phase,    \* lifecycle state of the specification reached by successful calls
    inp,      \* the project described by the input file
    smo,      \* one output-reader handle (data_t and its error_handle_t)
    smoLast,  \* the last reader call
    run,      \* swmm_run in flight: its position, locals and the calls it made
    prop,     \* the last writes and reads of properties made through the API
    solver    \* one Solver object of the Python binding

vars == <<eng, pc, loc, pre, last, phase, inp, smo, smoLast, run, prop, solver>>

engVars == <<eng, pc, loc, pre, last, phase, inp, run, prop, solver>>
smoVars == <<smo, smoLast>>

----------------------------------------------------------------------------
(* Bounds of the model *)

TicksPerMs == 2
MaxDurationSecs == 2
MaxReportStep == 2
MaxWetStep == 2
MaxRouteStep == 2
MaxStrideStep == 2

Ticks(sec) == sec * 1000 * TicksPerMs

MIN(a, b) == IF a < b THEN a ELSE b
MAX(a, b) == IF a > b THEN a ELSE b

----------------------------------------------------------------------------
(* Error codes.  The engine's codes are enum members whose numbers are set *)
(* in headers; only their being distinct and non-zero matters here.        *)

ERR_API_NOT_OPEN == 401
ERR_API_NOT_STARTED == 402
ERR_API_NOT_ENDED == 403
ERR_API_PROPERTY_TYPE == 417
ERR_API_PROPERTY_VALUE == 418
ERR_TIMESTEP == 201
ERR_FILE == 301
ERR_INPUT == 101
ERR_HOTSTART_FILE_OPEN == 331
ERR_API_HOTSTART_FILE_OPEN == 410

----------------------------------------------------------------------------
(* Project data read by swmm_open from the input file *)

Projects ==
    [ TotalDuration : {Ticks(d) : d \in 1..MaxDurationSecs},
      ReportStep    : 1..MaxReportStep,
      WetStep       : 1..MaxWetStep,
      RouteStep     : {Ticks(1)},
      NSubcatch     : {0, 1},
      NNode         : {0, 1},
      ReportStart   : {0},
      NGage         : {0},
      NLink         : {0},
      NPollut       : {0} ]

Kernels == {"rain", "output", "runoff", "hotstart", "routing", "massbal", "stats"}

\* C statics and globals are zero-initialised
EngInit ==
    [ IsOpenFlag |-> FALSE, IsStartedFlag |-> FALSE, SaveResultsFlag |-> FALSE,
      ErrorCode |-> 0, DoRunoff |-> FALSE, DoRouting |-> FALSE,
      RoutingDuration |-> 0, TotalDuration |-> 0,
      NewRoutingTime |-> 0, NewRunoffTime |-> 0, ReportTime |-> 0,
      ElapsedTime |-> 0,
      ReportStep |-> 0, WetStep |-> 0, RouteStep |-> 0, CourantFactor |-> 0,
      NSubcatch |-> 0, NNode |-> 0,
      projectOpen |-> FALSE, kernels |-> {}, hotstartInput |-> FALSE,
      ReportStart |-> 0, Nperiods |-> 0, periods |-> <<>>,
      StartDateTime |-> 0, EndDateTime |-> 0,
      RuleStep |-> 0, MinRouteStep |-> 0, LengtheningStep |-> 0,
      AllowPonding |-> 0, RptDisabled |-> 0,
      NGage |-> 0, NLink |-> 0, NPollut |-> 0,
      Gage |-> <<>>, Subcatch |-> <<>>, Node |-> <<>>, Link |-> <<>> ]

\* the part of the engine a call's outcome is compared with
Entry(e, ph) ==
    [ ErrorCode |-> e.ErrorCode, IsOpenFlag |-> e.IsOpenFlag,
      IsStartedFlag |-> e.IsStartedFlag, NewRoutingTime |-> e.NewRoutingTime,
      NewRunoffTime |-> e.NewRunoffTime, ReportTime |-> e.ReportTime,
      RoutingDuration |-> e.RoutingDuration, RouteStep |-> e.RouteStep,
      phase |-> ph ]

LastInit == [op |-> "none", arg |-> 0, ret |-> 0, elapsed |-> 0, did |-> {}]

LocInit == [realRouteStep |-> 0, strideStep |-> 0, elapsed |-> 0, did |-> {}]

\* what one API call yields: the engine after it, its return value, the value
\* written to *elapsedTime (ticks), and the external work it invoked
Ret(e, ret, elapsed, did) ==
    [e |-> e, ret |-> ret, elapsed |-> elapsed, did |-> did]

----------------------------------------------------------------------------
(* swmm_open *)

OpenOutcomes == {"ok", "open_fails", "input_fails"}

\* The objects of a project, with the fields that the property interface
\* reads and writes.  Numbers are in internal units; flags are 0 or 1.
PollutZero(n) == [p \in 0..(n - 1) |-> 0]

\* rainfall is the gage's current precipitation, apiRainfall the rate that
\* the API supplies for the next one
NewGage == [apiRainfall |-> 0, rainfall |-> 0]

NewSubcatch(n) ==
    [ area |-> 0, width |-> 0, slope |-> 0, curbLength |-> 0,
      apiRainfall |-> 0, apiSnowfall |-> 0, rptFlag |-> 0,
      apiExtBuildup |-> PollutZero(n) ]

\* the last node of a project is its outfall
NodeType(i, count) == IF i = count - 1 THEN "OUTFALL" ELSE "JUNCTION"

NewNode(type, n) ==
    [ type |-> type, invertElev |-> 0, fullDepth |-> 0, surDepth |-> 0,
      pondedArea |-> 0, initDepth |-> 0, apiExtInflow |-> 0, newLatFlow |-> 0,
      newDepth |-> 0, rptFlag |-> 0, apiExtQualMassFlux |-> PollutZero(n),
      fixedStage |-> 0, outfallType |-> "FREE_OUTFALL" ]

\* the first link of a project is a conduit, the second a pump, the others
\* orifices
LinkType(i) == IF i = 0 THEN "CONDUIT" ELSE IF i = 1 THEN "PUMP" ELSE "ORIFICE"

NewLink(type, n) ==
    [ type |-> type, setting |-> 1, targetSetting |-> 1, timeLastSet |-> 0,
      offset1 |-> 0, offset2 |-> 0, q0 |-> 0, qLimit |-> 0,
      cLossInlet |-> 0, cLossOutlet |-> 0, cLossAvg |-> 0, seepRate |-> 0,
      hasFlapGate |-> 0, rptFlag |-> 0, apiExtQualMassFlux |-> PollutZero(n) ]

\* project_open() and project_readInput(): the project's options and object
\* counts are those of the input file
project_readInput(e, proj) ==
    [e EXCEPT !.StartDateTime = 0,
              !.EndDateTime = proj.TotalDuration \div Ticks(1),
              !.RuleStep = 0, !.MinRouteStep = Ticks(1), !.LengtheningStep = 0,
              !.AllowPonding = 0, !.RptDisabled = 0,
              !.NGage = proj.NGage, !.NLink = proj.NLink,
              !.NPollut = proj.NPollut,
              !.Gage = [i \in 0..(proj.NGage - 1) |-> NewGage],
              !.Subcatch = [i \in 0..(proj.NSubcatch - 1) |->
                               NewSubcatch(proj.NPollut)],
              !.Node = [i \in 0..(proj.NNode - 1) |->
                           NewNode(NodeType(i, proj.NNode), proj.NPollut)],
              !.Link = [i \in 0..(proj.NLink - 1) |->
                           NewLink(LinkType(i), proj.NPollut)],
              !.TotalDuration = proj.TotalDuration,
              !.ReportStep = proj.ReportStep,
              !.WetStep = proj.WetStep,
              !.RouteStep = proj.RouteStep,
              !.CourantFactor = 1,     \* a variable routing step is in use
              !.NSubcatch = proj.NSubcatch,
              !.NNode = proj.NNode,
              !.ReportStart = Ticks(proj.ReportStart),
              !.hotstartInput = FALSE]

swmm_open(e, outcome, proj) ==
    LET e0 == [e EXCEPT !.ErrorCode = 0, !.IsOpenFlag = FALSE,
                        !.IsStartedFlag = FALSE]
    IN  IF outcome = "open_fails"
        THEN Ret([e0 EXCEPT !.ErrorCode = ERR_FILE], ERR_FILE, 0, {"project_open"})
        ELSE LET e1 == project_readInput(
                          [e0 EXCEPT !.IsOpenFlag = TRUE, !.projectOpen = TRUE], proj)
             IN  IF outcome = "input_fails"
                 THEN Ret([e1 EXCEPT !.ErrorCode = ERR_INPUT], ERR_INPUT, 0,
                          {"project_open", "project_readInput"})
                 ELSE Ret(e1, 0, 0,
                          {"project_open", "project_readInput", "project_validate"})

----------------------------------------------------------------------------
(* swmm_start *)

StartOutcomes == {"ok", "hotstart_fails"}

\* lines 491-575: the simulation is initialised and its kernels opened
start_simulation(e, saveResults, outcome) ==
    LET doRunoff == e.NSubcatch > 0
        doRouting == e.NNode > 0
        e1 == [e EXCEPT !.SaveResultsFlag = saveResults,
                        !.ElapsedTime = 0,
                        !.RoutingDuration = e.TotalDuration,
                        !.NewRunoffTime = 0,
                        !.NewRoutingTime = 0,
                        !.ReportTime = Ticks(e.ReportStep),
                        !.IsStartedFlag = TRUE,
                        !.DoRunoff = doRunoff,
                        !.DoRouting = doRouting,
                        !.Nperiods = 0,
                        !.periods = <<>>]
        early == {"rain", "output"} \cup (IF doRunoff THEN {"runoff"} ELSE {})
        late == {"hotstart"} \cup (IF doRouting THEN {"routing"} ELSE {})
                \cup {"massbal", "stats"}
    IN  IF outcome = "hotstart_fails"
        THEN Ret([e1 EXCEPT !.kernels = @ \cup early,
                            !.ErrorCode = ERR_HOTSTART_FILE_OPEN],
                 ERR_HOTSTART_FILE_OPEN, 0, {"project_init"})
        ELSE Ret([e1 EXCEPT !.kernels = @ \cup early \cup late], 0, 0,
                 {"project_init"})

\* swmm_start without the test of IsStartedFlag
swmm_start_restarts(e, saveResults, outcome) ==
    IF e.ErrorCode # 0 THEN Ret(e, e.ErrorCode, 0, {})
    ELSE IF ~e.IsOpenFlag
    THEN Ret([e EXCEPT !.ErrorCode = ERR_API_NOT_OPEN], ERR_API_NOT_OPEN, 0, {})
    ELSE start_simulation(e, saveResults, outcome)

swmm_start(e, saveResults, outcome) ==
    IF e.ErrorCode # 0 THEN Ret(e, e.ErrorCode, 0, {})
    ELSE IF ~e.IsOpenFlag
    THEN Ret([e EXCEPT !.ErrorCode = ERR_API_NOT_OPEN], ERR_API_NOT_OPEN, 0, {})
    ELSE IF e.IsStartedFlag
    THEN Ret([e EXCEPT !.ErrorCode = ERR_API_NOT_ENDED], ERR_API_NOT_ENDED, 0, {})
    ELSE start_simulation(e, saveResults, outcome)

----------------------------------------------------------------------------
(* swmm_step, execRouting, saveResults *)

\* the steps routing_getRoutingStep() can return, in ticks: the nominal
\* RouteStep it is given, a step one tick shorter, or a step that is too small
RoutingSteps(e) ==
    IF e.RouteStep <= 0 THEN {0} ELSE {0, e.RouteStep - 1, e.RouteStep}

routing_getRoutingStep(e, k) == k

\* routing_execute(): the kernel routes over routingStep and moves
\* NewRoutingTime on by it; it moves the setting of each link to its target
routing_execute(e, routingStep) ==
    [e EXCEPT !.NewRoutingTime = @ + routingStep,
              !.Link = [i \in DOMAIN e.Link |->
                           [e.Link[i] EXCEPT !.setting = e.Link[i].targetSetting]]]

\* runoff_execute() repeated until the runoff time reaches nextRoutingTime
RECURSIVE runoff_loop(_, _, _)
runoff_loop(NewRunoffTime, nextRoutingTime, runoffStep) ==
    IF NewRunoffTime < nextRoutingTime
    THEN runoff_loop(NewRunoffTime + runoffStep, nextRoutingTime, runoffStep)
    ELSE NewRunoffTime

\* the wet-weather step taken whatever the report step
wetOrReportStep_wet(e) == Ticks(e.WetStep)

\* line 770: the step taken when flow routing is not computed
wetOrReportStep(e) == MIN(Ticks(e.WetStep), Ticks(e.ReportStep))

execRouting(e, k) ==
    LET routingStep0 == IF ~e.DoRouting
                        THEN wetOrReportStep(e)
                        ELSE routing_getRoutingStep(e, k)
    IN  IF routingStep0 <= 0
        THEN [e EXCEPT !.ErrorCode = ERR_TIMESTEP]
        ELSE
        LET crosses == e.NewRoutingTime + routingStep0 > e.RoutingDuration
            routingStep == IF crosses
                           THEN MAX(e.RoutingDuration - e.NewRoutingTime, TicksPerMs)
                           ELSE routingStep0
            nextRoutingTime == IF crosses THEN e.RoutingDuration
                               ELSE e.NewRoutingTime + routingStep0
            e1 == IF e.DoRunoff
                  THEN [e EXCEPT !.NewRunoffTime =
                           runoff_loop(@, nextRoutingTime, Ticks(e.WetStep))]
                  ELSE e
        IN  IF e.DoRouting
            THEN routing_execute(e1, routingStep)
            ELSE [e1 EXCEPT !.NewRoutingTime = nextRoutingTime]

\* output_saveResults(): the results at reportTime become the next period of
\* the output file unless reportTime is before the start of reporting
output_saveResults(e, reportTime) ==
    IF Ticks(e.StartDateTime) + reportTime < e.ReportStart THEN e
    ELSE [e EXCEPT !.Nperiods = @ + 1, !.periods = Append(@, reportTime)]

\* saveResults handing the routing time to output_saveResults
saveResults_atRoutingTime(e) ==
    IF e.NewRoutingTime >= e.ReportTime
    THEN [output_saveResults(e, e.NewRoutingTime)
             EXCEPT !.ReportTime = @ + Ticks(e.ReportStep)]
    ELSE e

saveResults(e) ==
    IF e.NewRoutingTime >= e.ReportTime
    THEN [output_saveResults(e, e.ReportTime)
             EXCEPT !.ReportTime = @ + Ticks(e.ReportStep)]
    ELSE e

\* the elapsed time reported although the routing duration is reached
step_elapsedTime_always(e) == e.NewRoutingTime

\* no elapsed time reported at all
step_elapsedTime_zero(e) == 0

\* lines 622-628: the elapsed time, or 0 once the routing duration is reached
step_elapsedTime(e) ==
    IF e.NewRoutingTime < e.RoutingDuration THEN e.NewRoutingTime ELSE 0

swmm_step(e, k) ==
    IF e.ErrorCode # 0 THEN Ret(e, e.ErrorCode, 0, {})
    ELSE IF ~e.IsOpenFlag
    THEN Ret([e EXCEPT !.ErrorCode = ERR_API_NOT_OPEN], ERR_API_NOT_OPEN, 0, {})
    ELSE IF ~e.IsStartedFlag
    THEN Ret([e EXCEPT !.ErrorCode = ERR_API_NOT_STARTED], ERR_API_NOT_STARTED, 0, {})
    ELSE
    LET routes == e.NewRoutingTime < e.RoutingDuration
        e1 == IF routes THEN execRouting(e, k) ELSE e
        e2 == IF e1.SaveResultsFlag THEN saveResults(e1) ELSE e1
        elapsed == step_elapsedTime(e2)
        e3 == [e2 EXCEPT !.ElapsedTime = elapsed]
        did == (IF routes THEN {"execRouting"} ELSE {})
               \cup (IF e2.ReportTime # e1.ReportTime THEN {"output_saveResults"} ELSE {})
               \cup {"hotstart_save"}
    IN  Ret(e3, e3.ErrorCode, elapsed, did)

\* one entry of the record of a step: what acted, and the engine it left
Stage(stage, e) == [stage |-> stage, e |-> e]

\* lines 767-806 and 615-619 in the order of execution, as the sequence of
\* what acts in a step that passes the checks of lines 593-598: the runoff
\* loop or the climate update, the routing, saveResults and hotstart_save
ExecStages(e, k) ==
    LET routingStep0 == IF ~e.DoRouting
                        THEN wetOrReportStep(e)
                        ELSE routing_getRoutingStep(e, k)
        crosses == e.NewRoutingTime + routingStep0 > e.RoutingDuration
        routingStep == IF crosses
                       THEN MAX(e.RoutingDuration - e.NewRoutingTime, TicksPerMs)
                       ELSE routingStep0
        nextRoutingTime == IF crosses THEN e.RoutingDuration
                           ELSE e.NewRoutingTime + routingStep0
        e1 == [e EXCEPT !.NewRunoffTime =
                  runoff_loop(@, nextRoutingTime, Ticks(e.WetStep))]
        e0 == IF e.DoRunoff THEN e1 ELSE e
    IN  IF ~(e.NewRoutingTime < e.RoutingDuration) THEN <<>>
        ELSE IF routingStep0 <= 0
        THEN <<Stage("ERR_TIMESTEP", [e EXCEPT !.ErrorCode = ERR_TIMESTEP])>>
        ELSE << IF e.DoRunoff THEN Stage("runoff_execute", e1)
                ELSE Stage("climate_setState", e),
                IF e.DoRouting
                THEN Stage("routing_execute", routing_execute(e0, routingStep))
                ELSE Stage("NewRoutingTime",
                           [e0 EXCEPT !.NewRoutingTime = nextRoutingTime]) >>

\* the engine a sequence of stages leaves
Left(e, stages) == IF stages = <<>> THEN e ELSE stages[Len(stages)].e

\* saveResults called before execRouting
step_stages_reportFirst(e, k) ==
    LET r == IF e.SaveResultsFlag THEN <<Stage("saveResults", saveResults(e))>>
             ELSE <<>>
        x == ExecStages(Left(e, r), k)
    IN  r \o x \o <<Stage("hotstart_save", Left(Left(e, r), x))>>

\* lines 604-619
step_stages(e, k) ==
    LET x == ExecStages(e, k)
        e1 == Left(e, x)
        r == IF e1.SaveResultsFlag THEN <<Stage("saveResults", saveResults(e1))>>
             ELSE <<>>
    IN  x \o r \o <<Stage("hotstart_save", Left(e1, r))>>

----------------------------------------------------------------------------
(* swmm_stride: entry checks and set-up, the do-while over swmm_step, exit *)

StrideSteps == (0 - 1)..MaxStrideStep

\* lines 651-668; entered is FALSE on the early returns
swmm_stride_entry(e, strideStep) ==
    IF e.ErrorCode # 0
    THEN [entered |-> FALSE, r |-> Ret(e, e.ErrorCode, 0, {})]
    ELSE IF ~e.IsOpenFlag
    THEN [entered |-> FALSE,
          r |-> Ret([e EXCEPT !.ErrorCode = ERR_API_NOT_OPEN], ERR_API_NOT_OPEN, 0, {})]
    ELSE IF ~e.IsStartedFlag
    THEN [entered |-> FALSE,
          r |-> Ret([e EXCEPT !.ErrorCode = ERR_API_NOT_STARTED],
                    ERR_API_NOT_STARTED, 0, {})]
    ELSE [entered |-> TRUE,
          r |-> Ret([e EXCEPT
                       !.RoutingDuration =
                           MIN(e.TotalDuration, e.NewRoutingTime + Ticks(strideStep)),
                       !.RouteStep = IF Ticks(strideStep) < e.RouteStep
                                     THEN Ticks(strideStep) ELSE e.RouteStep],
                    0, 0, {})]

\* the loop condition of lines 671-674 after one swmm_step
stride_continues(r) == r.elapsed > 0 /\ r.e.ErrorCode = 0

\* swmm_stride's exit without the restoration of RouteStep
swmm_stride_exit_keepsStep(e, l) ==
    LET e1 == [e EXCEPT !.RoutingDuration = e.TotalDuration]
        elapsed == IF e1.NewRoutingTime < e1.TotalDuration
                   THEN e1.NewRoutingTime ELSE 0
    IN  Ret([e1 EXCEPT !.ElapsedTime = elapsed], e1.ErrorCode, elapsed, l.did)

\* lines 676-688
swmm_stride_exit(e, l) ==
    LET e1 == [e EXCEPT !.RouteStep = l.realRouteStep,
                        !.RoutingDuration = e.TotalDuration]
        elapsed == IF e1.NewRoutingTime < e1.TotalDuration
                   THEN e1.NewRoutingTime ELSE 0
    IN  Ret([e1 EXCEPT !.ElapsedTime = elapsed], e1.ErrorCode, elapsed, l.did)

----------------------------------------------------------------------------
(* swmm_useHotStart, swmm_end, swmm_report, swmm_close *)

swmm_useHotStart(e, valid) ==
    IF e.ErrorCode # 0 THEN Ret(e, e.ErrorCode, 0, {})
    ELSE IF ~e.IsOpenFlag
    THEN Ret([e EXCEPT !.ErrorCode = ERR_API_NOT_OPEN], ERR_API_NOT_OPEN, 0, {})
    ELSE IF e.IsStartedFlag
    THEN Ret([e EXCEPT !.ErrorCode = ERR_API_NOT_ENDED], ERR_API_NOT_ENDED, 0, {})
    ELSE IF ~valid
    THEN Ret(e, ERR_API_HOTSTART_FILE_OPEN, 0, {"hotstart_is_valid"})
    ELSE Ret([e EXCEPT !.hotstartInput = TRUE], 0, 0, {"hotstart_is_valid"})

\* a hot-start file written although no simulation is started
swmm_saveHotStart_whenOpen(e, saved) ==
    IF e.ErrorCode # 0 THEN Ret(e, e.ErrorCode, 0, {})
    ELSE IF ~e.IsOpenFlag
    THEN Ret([e EXCEPT !.ErrorCode = ERR_API_NOT_OPEN], ERR_API_NOT_OPEN, 0, {})
    ELSE IF ~saved
    THEN Ret(e, ERR_HOTSTART_FILE_OPEN, 0, {})
    ELSE Ret(e, 0, 0, {"hotstart_save_to_file"})

\* saved: hotstart_save_to_file wrote the file; it returns an error and
\* writes nothing otherwise
swmm_saveHotStart(e, saved) ==
    IF e.ErrorCode # 0 THEN Ret(e, e.ErrorCode, 0, {})
    ELSE IF ~e.IsOpenFlag
    THEN Ret([e EXCEPT !.ErrorCode = ERR_API_NOT_OPEN], ERR_API_NOT_OPEN, 0, {})
    ELSE IF ~e.IsStartedFlag
    THEN Ret([e EXCEPT !.ErrorCode = ERR_API_NOT_STARTED], ERR_API_NOT_STARTED,
             0, {})
    ELSE IF ~saved
    THEN Ret(e, ERR_HOTSTART_FILE_OPEN, 0, {})
    ELSE Ret(e, 0, 0, {"hotstart_save_to_file"})

\* swmm_end leaving early when the error code is set
swmm_end_earlyExit(e) ==
    IF ~e.IsOpenFlag
    THEN Ret([e EXCEPT !.ErrorCode = ERR_API_NOT_OPEN], ERR_API_NOT_OPEN, 0, {})
    ELSE IF e.ErrorCode # 0 THEN Ret(e, e.ErrorCode, 0, {})
    ELSE IF e.IsStartedFlag
    THEN Ret([e EXCEPT !.kernels = {}, !.IsStartedFlag = FALSE], e.ErrorCode, 0,
             {"output_end", "kernels_close", "massbal_report", "stats_report"})
    ELSE Ret(e, e.ErrorCode, 0, {})

\* the close routine of a kernel
CloseOf(kernel) ==
    CASE kernel = "stats" -> "stats_close" [] kernel = "massbal" -> "massbal_close"
      [] kernel = "rain" -> "rain_close" [] kernel = "runoff" -> "runoff_close"
      [] kernel = "routing" -> "routing_close"
      [] kernel = "hotstart" -> "hotstart_close"
      [] kernel = "output" -> "output_close"

\* swmm_end closing the kernels that are open
end_closes_opened(e) == e.kernels \ {"output"}

\* lines 886-895: the kernels swmm_end closes (rainfall is never ignored)
end_closes(e) ==
    {"stats", "massbal", "rain"}
    \cup (IF e.DoRunoff THEN {"runoff"} ELSE {})
    \cup (IF e.DoRouting THEN {"routing"} ELSE {})
    \cup {"hotstart"}

swmm_end(e) ==
    IF ~e.IsOpenFlag
    THEN Ret([e EXCEPT !.ErrorCode = ERR_API_NOT_OPEN], ERR_API_NOT_OPEN, 0, {})
    ELSE IF e.IsStartedFlag
    THEN Ret([e EXCEPT !.kernels = {}, !.IsStartedFlag = FALSE], e.ErrorCode, 0,
             {"output_end", "kernels_close"}
             \cup {CloseOf(k) : k \in end_closes(e)}
             \cup (IF e.ErrorCode = 0 THEN {"massbal_report", "stats_report"} ELSE {}))
    ELSE Ret(e, e.ErrorCode, 0, {})

swmm_report(e) ==
    IF e.ErrorCode = 0
    THEN Ret(e, e.ErrorCode, 0, {"report_writeReport"})
    ELSE Ret(e, e.ErrorCode, 0, {})

swmm_close(e) ==
    Ret([e EXCEPT !.projectOpen = IF e.IsOpenFlag THEN FALSE ELSE @,
                  !.IsOpenFlag = FALSE,
                  !.IsStartedFlag = FALSE],
        0, 0,
        (IF e.projectOpen THEN {"output_close"} ELSE {})
        \cup (IF e.IsOpenFlag THEN {"project_close"} ELSE {}))

----------------------------------------------------------------------------
(* swmm_setValue (the legacy setter) for the system properties of the clock *)

SetProperties == {"swmm_ROUTESTEP", "swmm_REPORTSTEP", "swmm_UNKNOWN"}

\* the routing step assigned before the value is looked at
setRoutingStep_assignFirst(e, value) ==
    LET e1 == [e EXCEPT !.CourantFactor = 0, !.RouteStep = value]
    IN  IF value <= 0 THEN Ret(e1, ERR_API_PROPERTY_VALUE, 0, {})
        ELSE Ret(e1, 0, 0, {})

\* setRoutingStep: value in ticks
setRoutingStep(e, value) ==
    IF value <= 0 THEN Ret(e, ERR_API_PROPERTY_VALUE, 0, {})
    ELSE Ret([e EXCEPT !.CourantFactor = 0,
                       !.RouteStep = IF value <= e.MinRouteStep
                                     THEN e.MinRouteStep ELSE value],
             0, 0, {})

----------------------------------------------------------------------------
(* The property interface: object types, property codes and unit factors *)

\* enum swmm_Object: the gages come first and the system last
swmm_GAGE == 0
swmm_SUBCATCH == 1
swmm_NODE == 2
swmm_LINK == 3
swmm_SYSTEM == 100

ERR_API_OBJECT_TYPE == 404
ERR_API_OBJECT_INDEX == 405
ERR_API_IS_RUNNING == 419

\* property codes by range: below 100 the system, then a hundred codes each
\* for gages, subcatchments, nodes and links
SystemProperties ==
    {"swmm_STARTDATE", "swmm_ENDDATE", "swmm_REPORTSTART", "swmm_ROUTESTEP",
     "swmm_REPORTSTEP", "swmm_RULESTEP", "swmm_MINROUTESTEP",
     "swmm_LENGTHENINGSTEP", "swmm_ALLOWPONDING", "swmm_NOREPORT"}

GageProperties == {"swmm_GAGE_RAINFALL"}

SubcatchProperties ==
    {"swmm_SUBCATCH_AREA", "swmm_SUBCATCH_WIDTH", "swmm_SUBCATCH_SLOPE",
     "swmm_SUBCATCH_CURB_LENGTH", "swmm_SUBCATCH_API_RAINFALL",
     "swmm_SUBCATCH_API_SNOWFALL", "swmm_SUBCATCH_RPTFLAG",
     "swmm_SUBCATCH_EXTERNAL_POLLUTANT_BUILDUP"}

NodeProperties ==
    {"swmm_NODE_ELEV", "swmm_NODE_MAXDEPTH", "swmm_NODE_SURCHARGE_DEPTH",
     "swmm_NODE_PONDED_AREA", "swmm_NODE_INITIAL_DEPTH", "swmm_NODE_LATFLOW",
     "swmm_NODE_HEAD", "swmm_NODE_RPTFLAG", "swmm_NODE_POLLUTANT_LATMASS_FLUX"}

LinkProperties ==
    {"swmm_LINK_SETTING", "swmm_LINK_OFFSET1", "swmm_LINK_OFFSET2",
     "swmm_LINK_INITIAL_FLOW", "swmm_LINK_FLOW_LIMIT", "swmm_LINK_INLET_LOSS",
     "swmm_LINK_OUTLET_LOSS", "swmm_LINK_AVERAGE_LOSS",
     "swmm_LINK_SEEPAGE_RATE", "swmm_LINK_HAS_FLAPGATE", "swmm_LINK_RPTFLAG",
     "swmm_LINK_POLLUTANT_LATMASS_FLUX"}

\* the properties that take a pollutant as sub-index
PollutantProperties ==
    {"swmm_SUBCATCH_EXTERNAL_POLLUTANT_BUILDUP",
     "swmm_NODE_POLLUTANT_LATMASS_FLUX", "swmm_LINK_POLLUTANT_LATMASS_FLUX"}

Properties ==
    SystemProperties \cup GageProperties \cup SubcatchProperties
        \cup NodeProperties \cup LinkProperties \cup {"swmm_UNKNOWN"}

\* UCF(u): user units per internal unit of quantity u, for US units with
\* flows in cfs: 1 for a length and a flow; the factors of the other
\* quantities are not 1 and stand here as 2.  User values are multiples of
\* the factor, so that value / UCF(u) is exact
UCF(u) == IF u \in {"LENGTH", "FLOW"} THEN 1 ELSE 2

InRange(index, count) == index >= 0 /\ index < count

\* (value > 0.0) as stored in a flag
Flag(value) == IF value > 0 THEN 1 ELSE 0

\* a field assigned whatever the value is
Store_unchecked(e, class, index, field, v, ok) ==
    Ret([e EXCEPT ![class][index][field] = v], 0, 0, {})

\* a field of object index of a class assigned, or the value refused
Store(e, class, index, field, v, ok) ==
    IF ok THEN Ret([e EXCEPT ![class][index][field] = v], 0, 0, {})
    ELSE Ret(e, ERR_API_PROPERTY_VALUE, 0, {})

----------------------------------------------------------------------------
(* The setters of the classes *)

setGageValue(e, property, index, subIndex, value) ==
    IF ~InRange(index, e.NGage) THEN Ret(e, ERR_API_OBJECT_INDEX, 0, {})
    ELSE IF property = "swmm_GAGE_RAINFALL"
    THEN Store(e, "Gage", index, "apiRainfall", value, value >= 0)
    ELSE Ret(e, ERR_API_PROPERTY_TYPE, 0, {})

setSubcatchValue(e, property, index, subIndex, value) ==
    LET put(field, v, ok) == Store(e, "Subcatch", index, field, v, ok)
        rainfall == put("apiRainfall", value \div UCF("RAINFALL"), value >= 0)
        snowfall == put("apiSnowfall", value \div UCF("RAINFALL"), value >= 0)
        buildup == Ret([e EXCEPT !.Subcatch[index].apiExtBuildup[subIndex] = value],
                       0, 0, {})
    IN  IF ~e.IsOpenFlag THEN Ret(e, ERR_API_NOT_OPEN, 0, {})
        ELSE IF ~InRange(index, e.NSubcatch)
        THEN Ret(e, ERR_API_OBJECT_INDEX, 0, {})
        ELSE IF e.IsStartedFlag
        THEN CASE property = "swmm_SUBCATCH_API_RAINFALL" -> rainfall
               [] property = "swmm_SUBCATCH_API_SNOWFALL" -> snowfall
               [] property = "swmm_SUBCATCH_EXTERNAL_POLLUTANT_BUILDUP" -> buildup
               [] OTHER -> Ret(e, ERR_API_IS_RUNNING, 0, {})
        ELSE CASE property = "swmm_SUBCATCH_AREA" ->
                      put("area", value \div UCF("LANDAREA"), value >= 0)
               [] property = "swmm_SUBCATCH_WIDTH" ->
                      put("width", value \div UCF("LENGTH"), value >= 0)
               [] property = "swmm_SUBCATCH_SLOPE" ->
                      put("slope", value, value >= 0)
               [] property = "swmm_SUBCATCH_CURB_LENGTH" ->
                      put("curbLength", value \div UCF("LENGTH"), value >= 0)
               [] property = "swmm_SUBCATCH_API_RAINFALL" -> rainfall
               [] property = "swmm_SUBCATCH_API_SNOWFALL" -> snowfall
               [] property = "swmm_SUBCATCH_RPTFLAG" ->
                      put("rptFlag", Flag(value), value >= 0)
               [] property = "swmm_SUBCATCH_EXTERNAL_POLLUTANT_BUILDUP" -> buildup
               [] OTHER -> Ret(e, ERR_API_PROPERTY_TYPE, 0, {})

\* the stage of an outfall fixed (the swmm_NODE_HEAD case of setNodeValue and
\* the body of setOutfallStage after its index check)
fixOutfallStage(e, index, value) ==
    IF e.Node[index].type # "OUTFALL" THEN Ret(e, ERR_API_OBJECT_TYPE, 0, {})
    ELSE Ret([e EXCEPT !.Node[index].fixedStage = value \div UCF("LENGTH"),
                       !.Node[index].outfallType = "FIXED_OUTFALL"], 0, 0, {})

setNodeValue(e, property, index, subIndex, value) ==
    LET put(field, v, ok) == Store(e, "Node", index, field, v, ok)
        latflow == put("apiExtInflow", value \div UCF("FLOW"), TRUE)
        massflux ==
            Ret([e EXCEPT !.Node[index].apiExtQualMassFlux[subIndex] = value],
                0, 0, {})
    IN  IF ~e.IsOpenFlag THEN Ret(e, ERR_API_NOT_OPEN, 0, {})
        ELSE IF ~InRange(index, e.NNode)
        THEN Ret(e, ERR_API_OBJECT_INDEX, 0, {})
        ELSE IF e.IsStartedFlag
        THEN CASE property = "swmm_NODE_LATFLOW" -> latflow
               [] property = "swmm_NODE_HEAD" -> fixOutfallStage(e, index, value)
               [] property = "swmm_NODE_POLLUTANT_LATMASS_FLUX" -> massflux
               [] OTHER -> Ret(e, ERR_API_IS_RUNNING, 0, {})
        ELSE CASE property = "swmm_NODE_ELEV" ->
                      put("invertElev", value \div UCF("LENGTH"), TRUE)
               [] property = "swmm_NODE_MAXDEPTH" ->
                      put("fullDepth", value \div UCF("LENGTH"), value >= 0)
               [] property = "swmm_NODE_SURCHARGE_DEPTH" ->
                      put("surDepth", value \div UCF("LENGTH"), value >= 0)
               [] property = "swmm_NODE_PONDED_AREA" ->
                      put("pondedArea", value \div UCF("LANDAREA"), value >= 0)
               [] property = "swmm_NODE_INITIAL_DEPTH" ->
                      put("initDepth", value \div UCF("LENGTH"), value >= 0)
               [] property = "swmm_NODE_LATFLOW" -> latflow
               [] property = "swmm_NODE_HEAD" -> fixOutfallStage(e, index, value)
               [] property = "swmm_NODE_RPTFLAG" ->
                      put("rptFlag", Flag(value), TRUE)
               [] property = "swmm_NODE_POLLUTANT_LATMASS_FLUX" -> massflux
               [] OTHER -> Ret(e, ERR_API_PROPERTY_TYPE, 0, {})

setNodeLatFlow(e, index, value) ==
    IF ~InRange(index, e.NNode) THEN Ret(e, ERR_API_OBJECT_INDEX, 0, {})
    ELSE Store(e, "Node", index, "apiExtInflow", value \div UCF("FLOW"), TRUE)

setOutfallStage(e, index, value) ==
    IF ~InRange(index, e.NNode) THEN Ret(e, ERR_API_OBJECT_INDEX, 0, {})
    ELSE fixOutfallStage(e, index, value)

\* link_setSetting(index, 0.0): the kernel moves the setting to its target
\* on the next step, so the call itself leaves the setting as it is
link_setSetting(e, index) == e

\* timeLastSet stamped only when the new target differs from the setting and
\* one of the two is 0
stamps_onTransition(targetSetting, setting) ==
    targetSetting # setting /\ (targetSetting = 0) # (setting = 0)

\* line 2149
stamps(targetSetting, setting) == targetSetting * setting = 0

\* value: a setting, 1 for fully open
setLinkSetting(e, index, value) ==
    IF ~InRange(index, e.NLink) THEN Ret(e, ERR_API_OBJECT_INDEX, 0, {})
    ELSE LET link == e.Link[index]
             v == IF link.type # "PUMP" /\ value > 1 THEN 1 ELSE value
         IN  IF value < 0 \/ link.type = "CONDUIT"
             THEN Ret(e, ERR_API_OBJECT_INDEX, 0, {})
             ELSE IF link.targetSetting = v THEN Ret(e, 0, 0, {})
             ELSE LET e1 == [e EXCEPT !.Link[index].targetSetting = v]
                      stamped == stamps(v, link.setting)
                      e2 == IF stamped
                            THEN [e1 EXCEPT !.Link[index].timeLastSet =
                                      Ticks(e.StartDateTime) + e.ElapsedTime]
                            ELSE e1
                  IN  Ret(link_setSetting(e2, index), 0, 0,
                          {"link_setSetting"}
                          \cup (IF stamped THEN {"timeLastSet"} ELSE {}))

setLinkValue(e, property, index, subIndex, value) ==
    LET put(field, v, ok) == Store(e, "Link", index, field, v, ok)
        massflux ==
            Ret([e EXCEPT !.Link[index].apiExtQualMassFlux[subIndex] = value],
                0, 0, {})
    IN  IF ~e.IsOpenFlag THEN Ret(e, ERR_API_NOT_OPEN, 0, {})
        ELSE IF ~InRange(index, e.NLink)
        THEN Ret(e, ERR_API_OBJECT_INDEX, 0, {})
        ELSE IF e.IsStartedFlag
        THEN CASE property = "swmm_LINK_SETTING" -> setLinkSetting(e, index, value)
               [] property = "swmm_LINK_FLOW_LIMIT" ->
                      put("qLimit", value \div UCF("FLOW"), TRUE)
               [] property = "swmm_LINK_SEEPAGE_RATE" ->
                      put("seepRate", value \div UCF("RAINFALL"), value >= 0)
               [] property = "swmm_LINK_POLLUTANT_LATMASS_FLUX" -> massflux
               [] OTHER -> Ret(e, ERR_API_IS_RUNNING, 0, {})
        ELSE CASE property = "swmm_LINK_SETTING" -> setLinkSetting(e, index, value)
               [] property = "swmm_LINK_OFFSET1" ->
                      put("offset1", value \div UCF("LENGTH"), TRUE)
               [] property = "swmm_LINK_OFFSET2" ->
                      put("offset2", value \div UCF("LENGTH"), TRUE)
               [] property = "swmm_LINK_INITIAL_FLOW" ->
                      put("q0", value \div UCF("FLOW"), TRUE)
               [] property = "swmm_LINK_FLOW_LIMIT" ->
                      put("qLimit", value \div UCF("FLOW"), TRUE)
               [] property = "swmm_LINK_INLET_LOSS" ->
                      put("cLossInlet", value, TRUE)
               [] property = "swmm_LINK_OUTLET_LOSS" ->
                      put("cLossOutlet", value, TRUE)
               [] property = "swmm_LINK_AVERAGE_LOSS" ->
                      put("cLossAvg", value, TRUE)
               [] property = "swmm_LINK_SEEPAGE_RATE" ->
                      put("seepRate", value \div UCF("RAINFALL"), value >= 0)
               [] property = "swmm_LINK_HAS_FLAPGATE" ->
                      put("hasFlapGate", Flag(value), TRUE)
               [] property = "swmm_LINK_POLLUTANT_LATMASS_FLUX" -> massflux
               [] OTHER -> Ret(e, ERR_API_PROPERTY_TYPE, 0, {})

----------------------------------------------------------------------------
(* The setter of the system and the two forms of the API's setter *)

\* value: seconds (a date is counted in seconds too)
setSystemValue(e, property, value) ==
    LET positive(e1) == IF value > 0 THEN Ret(e1, 0, 0, {})
                        ELSE Ret(e, ERR_API_PROPERTY_VALUE, 0, {})
    IN  IF e.IsStartedFlag THEN Ret(e, ERR_API_NOT_ENDED, 0, {})
        ELSE CASE property = "swmm_STARTDATE" ->
                      Ret([e EXCEPT !.StartDateTime = value,
                                    !.TotalDuration = Ticks(e.EndDateTime - value)],
                          0, 0, {})
               [] property = "swmm_ENDDATE" ->
                      Ret([e EXCEPT !.EndDateTime = value,
                                    !.TotalDuration = Ticks(value - e.StartDateTime)],
                          0, 0, {})
               [] property = "swmm_REPORTSTART" ->
                      Ret([e EXCEPT !.ReportStart = Ticks(value)], 0, 0, {})
               [] property = "swmm_ROUTESTEP" -> setRoutingStep(e, Ticks(value))
               [] property = "swmm_REPORTSTEP" ->
                      positive([e EXCEPT !.ReportStep = value])
               [] property = "swmm_RULESTEP" ->
                      positive([e EXCEPT !.RuleStep = value])
               [] property = "swmm_MINROUTESTEP" ->
                      positive([e EXCEPT !.MinRouteStep = Ticks(value)])
               [] property = "swmm_LENGTHENINGSTEP" ->
                      positive([e EXCEPT !.LengtheningStep = value])
               [] property = "swmm_ALLOWPONDING" ->
                      Ret([e EXCEPT !.AllowPonding = Flag(value)], 0, 0, {})
               [] property = "swmm_NOREPORT" ->
                      Ret([e EXCEPT !.RptDisabled = Flag(value)], 0, 0, {})
               [] OTHER -> Ret(e, ERR_API_PROPERTY_TYPE, 0, {})

\* the report flag written whether or not a simulation is started
set_rptFlag_whileStarted(e, class, count, index, value) ==
    IF InRange(index, count)
    THEN [e EXCEPT ![class][index].rptFlag = Flag(value)] ELSE e

\* the report flag of an object as the legacy setter writes it
set_rptFlag(e, class, count, index, value) ==
    IF ~e.IsStartedFlag /\ InRange(index, count)
    THEN [e EXCEPT ![class][index].rptFlag = Flag(value)] ELSE e

\* the legacy form; value: seconds for a step
swmm_setValue(e, property, index, value) ==
    LET rptFlag(class, count) == set_rptFlag(e, class, count, index, value)
    IN  IF ~e.IsOpenFlag THEN Ret(e, ERR_API_NOT_OPEN, 0, {})
        ELSE CASE property = "swmm_GAGE_RAINFALL" ->
                      Ret(IF InRange(index, e.NGage) /\ value >= 0
                          THEN [e EXCEPT !.Gage[index].apiRainfall = value]
                          ELSE e, 0, 0, {})
               [] property = "swmm_SUBCATCH_RPTFLAG" ->
                      Ret(rptFlag("Subcatch", e.NSubcatch), 0, 0, {})
               [] property = "swmm_NODE_LATFLOW" ->
                      Ret(setNodeLatFlow(e, index, value).e, 0, 0, {})
               [] property = "swmm_NODE_HEAD" ->
                      Ret(setOutfallStage(e, index, value).e, 0, 0, {})
               [] property = "swmm_NODE_RPTFLAG" ->
                      Ret(rptFlag("Node", e.NNode), 0, 0, {})
               [] property = "swmm_LINK_SETTING" ->
                      LET r == setLinkSetting(e, index, value)
                      IN  Ret(r.e, 0, 0, r.did)
               [] property = "swmm_LINK_RPTFLAG" ->
                      Ret(rptFlag("Link", e.NLink), 0, 0, {})
               [] property = "swmm_ROUTESTEP" ->
                      Ret(setRoutingStep(e, Ticks(value)).e, 0, 0, {})
               [] property = "swmm_REPORTSTEP" ->
                      Ret(IF ~e.IsStartedFlag /\ value > 0
                          THEN [e EXCEPT !.ReportStep = value] ELSE e, 0, 0, {})
               [] property = "swmm_NOREPORT" ->
                      Ret(IF ~e.IsStartedFlag
                          THEN [e EXCEPT !.RptDisabled = Flag(value)] ELSE e,
                          0, 0, {})
               [] OTHER -> Ret(e, ERR_API_PROPERTY_TYPE, 0, {})

\* the setter of the class that selector names, handed index as the index
\* of the object
setValueOfClass(e, selector, property, index, subIndex, value) ==
    CASE selector = swmm_SYSTEM -> setSystemValue(e, property, value)
      [] selector = swmm_GAGE -> setGageValue(e, property, index, subIndex, value)
      [] selector = swmm_SUBCATCH ->
             setSubcatchValue(e, property, index, subIndex, value)
      [] selector = swmm_NODE -> setNodeValue(e, property, index, subIndex, value)
      [] selector = swmm_LINK -> setLinkValue(e, property, index, subIndex, value)
      [] OTHER -> Ret(e, ERR_API_OBJECT_TYPE, 0, {})

\* the expanded form: its switch is on index
swmm_setValueExpanded(e, objType, property, index, subIndex, value) ==
    IF ~e.IsOpenFlag THEN Ret(e, ERR_API_NOT_OPEN, 0, {})
    ELSE setValueOfClass(e, index, property, index, subIndex, value)

----------------------------------------------------------------------------
(* The getters: each yields the value, or an error code in its place *)

\* gage_getPrecip(index, &rain, &snow) yields the gage's current rainfall
getGageValue(e, property, index) ==
    IF ~InRange(index, e.NGage) THEN ERR_API_OBJECT_INDEX
    ELSE IF property = "swmm_GAGE_RAINFALL"
    THEN e.Gage[index].rainfall * UCF("RAINFALL")
    ELSE ERR_API_PROPERTY_TYPE

getSubcatchValue(e, property, index, subIndex) ==
    IF ~InRange(index, e.NSubcatch) THEN 0
    ELSE LET subcatch == e.Subcatch[index]
         IN  CASE property = "swmm_SUBCATCH_AREA" -> subcatch.area * UCF("LANDAREA")
               [] property = "swmm_SUBCATCH_RPTFLAG" -> Flag(subcatch.rptFlag)
               [] property = "swmm_SUBCATCH_WIDTH" -> subcatch.width * UCF("LENGTH")
               [] property = "swmm_SUBCATCH_SLOPE" -> subcatch.slope
               [] property = "swmm_SUBCATCH_CURB_LENGTH" ->
                      subcatch.curbLength * UCF("LENGTH")
               [] property = "swmm_SUBCATCH_API_RAINFALL" ->
                      subcatch.apiRainfall * UCF("RAINFALL")
               [] property = "swmm_SUBCATCH_API_SNOWFALL" ->
                      subcatch.apiSnowfall * UCF("RAINFALL")
               [] property = "swmm_SUBCATCH_EXTERNAL_POLLUTANT_BUILDUP" ->
                      IF ~InRange(subIndex, e.NPollut) THEN ERR_API_OBJECT_INDEX
                      ELSE subcatch.apiExtBuildup[subIndex] \div UCF("LANDAREA")
               [] OTHER -> ERR_API_PROPERTY_TYPE

getNodeValue(e, property, index, subIndex) ==
    IF ~InRange(index, e.NNode) THEN 0
    ELSE LET node == e.Node[index]
         IN  CASE property = "swmm_NODE_ELEV" -> node.invertElev * UCF("LENGTH")
               [] property = "swmm_NODE_MAXDEPTH" -> node.fullDepth * UCF("LENGTH")
               [] property = "swmm_NODE_HEAD" ->
                      (node.newDepth + node.invertElev) * UCF("LENGTH")
               [] property = "swmm_NODE_LATFLOW" -> node.newLatFlow * UCF("FLOW")
               [] property = "swmm_NODE_RPTFLAG" -> Flag(node.rptFlag)
               [] property = "swmm_NODE_SURCHARGE_DEPTH" ->
                      node.surDepth * UCF("LENGTH")
               [] property = "swmm_NODE_PONDED_AREA" ->
                      node.pondedArea * UCF("LANDAREA")
               [] property = "swmm_NODE_INITIAL_DEPTH" ->
                      node.initDepth * UCF("LENGTH")
               [] property = "swmm_NODE_POLLUTANT_LATMASS_FLUX" ->
                      IF ~InRange(subIndex, e.NPollut) THEN ERR_API_OBJECT_INDEX
                      ELSE node.apiExtQualMassFlux[subIndex]
               [] OTHER -> ERR_API_OBJECT_TYPE

getLinkValue(e, property, index, subIndex) ==
    IF ~InRange(index, e.NLink) THEN 0
    ELSE LET link == e.Link[index]
         IN  CASE property = "swmm_LINK_SETTING" -> link.setting
               [] property = "swmm_LINK_RPTFLAG" -> Flag(link.rptFlag)
               [] property = "swmm_LINK_OFFSET1" -> link.offset1 * UCF("LENGTH")
               [] property = "swmm_LINK_OFFSET2" -> link.offset2 * UCF("LENGTH")
               [] property = "swmm_LINK_INITIAL_FLOW" -> link.q0 * UCF("FLOW")
               [] property = "swmm_LINK_FLOW_LIMIT" -> link.qLimit * UCF("FLOW")
               [] property = "swmm_LINK_INLET_LOSS" -> link.cLossInlet
               [] property = "swmm_LINK_OUTLET_LOSS" -> link.cLossOutlet
               [] property = "swmm_LINK_AVERAGE_LOSS" -> link.cLossAvg
               [] property = "swmm_LINK_SEEPAGE_RATE" ->
                      link.seepRate * UCF("RAINFALL")
               [] property = "swmm_LINK_HAS_FLAPGATE" -> Flag(link.hasFlapGate)
               [] property = "swmm_LINK_POLLUTANT_LATMASS_FLUX" ->
                      IF ~InRange(subIndex, e.NPollut) THEN ERR_API_OBJECT_INDEX
                      ELSE link.apiExtQualMassFlux[subIndex]
               [] OTHER -> ERR_API_OBJECT_TYPE

\* steps are returned in seconds, as they were given; the routing step is a
\* whole number of seconds wherever it is read here
getSystemValue(e, property) ==
    CASE property = "swmm_STARTDATE" -> e.StartDateTime
      [] property = "swmm_ENDDATE" -> e.EndDateTime
      [] property = "swmm_REPORTSTART" -> e.ReportStart \div Ticks(1)
      [] property = "swmm_ROUTESTEP" -> e.RouteStep \div Ticks(1)
      [] property = "swmm_REPORTSTEP" -> e.ReportStep
      [] property = "swmm_RULESTEP" -> e.RuleStep
      [] property = "swmm_MINROUTESTEP" -> e.MinRouteStep \div Ticks(1)
      [] property = "swmm_LENGTHENINGSTEP" -> e.LengtheningStep
      [] property = "swmm_ALLOWPONDING" -> e.AllowPonding
      [] property = "swmm_NOREPORT" -> e.RptDisabled
      [] OTHER -> ERR_API_PROPERTY_TYPE

\* the legacy form finds the class in the range of the property code
swmm_getValue(e, property, index) ==
    IF ~e.IsOpenFlag THEN ERR_API_NOT_OPEN
    ELSE IF property \in SystemProperties THEN getSystemValue(e, property)
    ELSE IF property \in GageProperties THEN getGageValue(e, property, index)
    ELSE IF property \in SubcatchProperties
    THEN getSubcatchValue(e, property, index, -1)
    ELSE IF property \in NodeProperties THEN getNodeValue(e, property, index, -1)
    ELSE IF property \in LinkProperties THEN getLinkValue(e, property, index, -1)
    ELSE ERR_API_PROPERTY_TYPE

swmm_getValueExpanded(e, objType, property, index, subIndex) ==
    IF ~e.IsOpenFlag THEN ERR_API_NOT_OPEN
    ELSE CASE objType = swmm_SYSTEM -> getSystemValue(e, property)
           [] objType = swmm_GAGE -> getGageValue(e, property, index)
           [] objType = swmm_SUBCATCH ->
                  getSubcatchValue(e, property, index, subIndex)
           [] objType = swmm_NODE -> getNodeValue(e, property, index, subIndex)
           [] objType = swmm_LINK -> getLinkValue(e, property, index, subIndex)
           [] OTHER -> ERR_API_OBJECT_TYPE

----------------------------------------------------------------------------
(* The lifecycle state of the specification that a call's success leads to *)

Phases == {"UNINITIALIZED", "OPEN", "STARTED", "ENDED", "CLOSED"}

NextPhase(ph, op, e, r) ==
    IF op = "close" THEN "CLOSED"
    ELSE IF r.ret # 0 THEN ph
    ELSE IF op = "open" THEN "OPEN"
    ELSE IF op = "start" THEN "STARTED"
    ELSE IF op = "end" /\ e.IsStartedFlag THEN "ENDED"
    ELSE ph

----------------------------------------------------------------------------
(* The output reader: error manager and the calls on one handle *)

MaxPeriods == 2
MaxSubcatch == 2

\* set_error storing every code, 0 included
set_error_clobbers(error_status, errorcode) ==
    [status |-> errorcode, ret |-> errorcode]

\* the code returned and never stored
set_error_unstored(error_status, errorcode) ==
    [status |-> error_status, ret |-> errorcode]

\* set_error(): the status of the handle after the call, and its return value
set_error(error_status, errorcode) ==
    [status |-> IF errorcode # 0 THEN errorcode ELSE error_status,
     ret |-> errorcode]

clear_error(error_status) == 0

\* check_error(): whether a message is allocated and returned
check_error(error_status) == error_status # 0

RECORDSIZE == 4
DATESIZE == 8

\* the header fields SMO_open reads besides the number of subcatchments, and
\* the position of the results that the epilogue gives
HeaderFields ==
    {"Nnodes", "Nlinks", "SubcatchVars", "NodeVars", "LinkVars", "SysVars"}

\* a file of the given epilogue (Nperiods and errcode as the INT4 stored),
\* header counts and width of the reader's long
OutFile(exists, magicOK, Nperiods, errcode, longBits, Nsubcatch, Nlinks) ==
    [ exists |-> exists, magicOK |-> magicOK, Nperiods |-> Nperiods,
      errcode |-> errcode, longBits |-> longBits, Nsubcatch |-> Nsubcatch,
      Nnodes |-> 1, Nlinks |-> Nlinks, SubcatchVars |-> 2, NodeVars |-> 2,
      LinkVars |-> 2, SysVars |-> 2, IDPos |-> 7 * RECORDSIZE,
      ResultsPos |-> 10 * RECORDSIZE ]

\* the binary files SMO_open may be given
OutFiles ==
    { OutFile(x, m, n, c, 64, s, 1) :
        x \in BOOLEAN, m \in BOOLEAN, n \in 0..MaxPeriods, c \in {0, 1},
        s \in 1..MaxSubcatch }

\* calloc'ed data_t with a new error manager
SmoNull ==
    [state |-> "null", error_status |-> 0, Nperiods |-> 0, Nsubcatch |-> 0,
     Nnodes |-> 0, Nlinks |-> 0, SubcatchVars |-> 0, NodeVars |-> 0,
     LinkVars |-> 0, SysVars |-> 0, IDPos |-> 0, ResultsPos |-> 0,
     BytesPerPeriod |-> 0, elementNames |-> FALSE]

\* the arguments of a query: an element or element type, an attribute, and
\* a range of periods or one period
Query(index, attr, startPeriod, endPeriod) ==
    [index |-> index, attr |-> attr, startPeriod |-> startPeriod,
     endPeriod |-> endPeriod]

NoQuery == Query(0, 0, 0, 0)

\* a query made, with the array it returned
QueryDone(call, values) == [call |-> call, values |-> values]

\* the series query and the attribute query that the last query followed:
\* depth 0 for no query, 1 for a series, 2 for a series and an attribute
NoChain == [depth |-> 0, series |-> QueryDone(NoQuery, <<>>),
            attribute |-> QueryDone(NoQuery, <<>>)]

SmoLastInit == [op |-> "none", ret |-> 0, entry_status |-> 0, reads |-> {},
                assigned |-> FALSE, values |-> <<>>, call |-> NoQuery,
                before |-> SmoNull, chain |-> NoChain]

\* reads: the byte offsets read; values: the array handed to the caller,
\* the float stored at a byte offset being identified by the offset
SmoRet(h, ret, reads, assigned) ==
    [h |-> h, ret |-> ret, reads |-> reads, assigned |-> assigned,
     values |-> <<>>]

\* the return of a query that assigns its array when errorcode is 0
SmoVals(h, errorcode, values) ==
    LET se == set_error(h.error_status, errorcode)
    IN  [h |-> [h EXCEPT !.error_status = se.status], ret |-> se.ret,
         reads |-> IF errorcode = 0 THEN {values[k] : k \in DOMAIN values}
                   ELSE {},
         assigned |-> errorcode = 0,
         values |-> IF errorcode = 0 THEN values ELSE <<>>]

SMO_init(h) == SmoRet([SmoNull EXCEPT !.state = "init"], 0, {}, FALSE)

\* fread of RECORDSIZE bytes into the zeroed long Nperiods: where a long has
\* 64 bits the four bytes stored are its low half (the high half on a
\* big-endian machine is not modelled), so a negative INT4 n is read as the
\* positive n + 2^32; 2^30 stands for 2^32, which is beyond the integers of
\* the model checker, and like it exceeds every period a caller gives
fread_Nperiods(f) ==
    IF f.longBits = 64 /\ f.Nperiods < 0 THEN f.Nperiods + 2^30 ELSE f.Nperiods

validateFile(f) ==
    IF ~f.magicOK THEN 435
    ELSE IF fread_Nperiods(f) <= 0 THEN 436
    ELSE IF f.errcode # 0 THEN 10
    ELSE 0

\* the header of the file read into the handle
readHeader(h, f) ==
    LET h1 == [k \in DOMAIN h |-> IF k \in HeaderFields \cup {"Nsubcatch"}
                                    THEN f[k] ELSE h[k]]
    IN  [h1 EXCEPT !.BytesPerPeriod =
             DATESIZE + (h1.Nsubcatch * h1.SubcatchVars
                         + h1.Nnodes * h1.NodeVars
                         + h1.Nlinks * h1.LinkVars + h1.SysVars) * RECORDSIZE,
                   !.state = "open"]

SMO_open(h, f) ==
    LET errorcode == IF ~f.exists THEN 434 ELSE validateFile(f)
        h1 == IF f.exists THEN [h EXCEPT !.Nperiods = fread_Nperiods(f),
                                         !.IDPos = f.IDPos,
                                         !.ResultsPos = f.ResultsPos]
              ELSE h
        h2 == IF errorcode < 400 THEN readHeader(h1, f) ELSE h1
    IN  IF errorcode > 400
        THEN SmoRet([h2 EXCEPT !.state = "freed",
                               !.error_status = set_error(@, errorcode).status],
                    errorcode, {}, FALSE)
        ELSE SmoRet(h2, errorcode, {}, FALSE)

\* the byte offset of the result of a subcatchment, node or link, or of the
\* system, for an attribute at a period
smo_getSubcatchValue(h, timeIndex, subcatchIndex, attr) ==
    h.ResultsPos + timeIndex * h.BytesPerPeriod + 2 * RECORDSIZE
    + RECORDSIZE * (subcatchIndex * h.SubcatchVars + attr)

smo_getNodeValue(h, timeIndex, nodeIndex, attr) ==
    h.ResultsPos + timeIndex * h.BytesPerPeriod + 2 * RECORDSIZE
    + RECORDSIZE * (h.Nsubcatch * h.SubcatchVars + nodeIndex * h.NodeVars + attr)

\* the result of a link looked for in a period laid out attribute by
\* attribute
smo_getLinkValue_byAttribute(h, timeIndex, linkIndex, attr) ==
    h.ResultsPos + timeIndex * h.BytesPerPeriod + 2 * RECORDSIZE
    + RECORDSIZE * (h.Nsubcatch * h.SubcatchVars + h.Nnodes * h.NodeVars
                    + attr * h.Nlinks + linkIndex)

smo_getLinkValue(h, timeIndex, linkIndex, attr) ==
    h.ResultsPos + timeIndex * h.BytesPerPeriod + 2 * RECORDSIZE
    + RECORDSIZE * (h.Nsubcatch * h.SubcatchVars + h.Nnodes * h.NodeVars
                    + linkIndex * h.LinkVars + attr)

smo_getSystemValue(h, timeIndex, attr) ==
    h.ResultsPos + timeIndex * h.BytesPerPeriod + 2 * RECORDSIZE
    + RECORDSIZE * (h.Nsubcatch * h.SubcatchVars + h.Nnodes * h.NodeVars
                    + h.Nlinks * h.LinkVars + attr)

\* allocOK: newFloatArray returned an array
SMO_getSubcatchSeries(h, subcatchIndex, attr, startPeriod, endPeriod, allocOK) ==
    LET errorcode ==
            IF subcatchIndex < 0 \/ subcatchIndex > h.Nsubcatch THEN 420
            ELSE IF startPeriod < 0 \/ startPeriod >= h.Nperiods
                    \/ endPeriod <= startPeriod THEN 422
            ELSE IF ~allocOK THEN 411
            ELSE 0
        temp == [k \in 1..(endPeriod - startPeriod) |->
                   smo_getSubcatchValue(h, startPeriod + k - 1, subcatchIndex,
                                        attr)]
    IN  SmoVals(h, errorcode, temp)

SMO_getNodeSeries(h, nodeIndex, attr, startPeriod, endPeriod, allocOK) ==
    LET errorcode ==
            IF nodeIndex < 0 \/ nodeIndex > h.Nnodes THEN 420
            ELSE IF startPeriod < 0 \/ startPeriod >= h.Nperiods
                    \/ endPeriod <= startPeriod THEN 422
            ELSE IF ~allocOK THEN 411
            ELSE 0
        temp == [k \in 1..(endPeriod - startPeriod) |->
                   smo_getNodeValue(h, startPeriod + k - 1, nodeIndex, attr)]
    IN  SmoVals(h, errorcode, temp)

SMO_getLinkSeries(h, linkIndex, attr, startPeriod, endPeriod, allocOK) ==
    LET errorcode ==
            IF linkIndex < 0 \/ linkIndex > h.Nlinks THEN 420
            ELSE IF startPeriod < 0 \/ startPeriod >= h.Nperiods
                    \/ endPeriod <= startPeriod THEN 422
            ELSE IF ~allocOK THEN 411
            ELSE 0
        temp == [k \in 1..(endPeriod - startPeriod) |->
                   smo_getLinkValue(h, startPeriod + k - 1, linkIndex, attr)]
    IN  SmoVals(h, errorcode, temp)

SMO_getSystemSeries(h, attr, startPeriod, endPeriod, allocOK) ==
    LET errorcode ==
            IF startPeriod < 0 \/ startPeriod >= h.Nperiods
               \/ endPeriod <= startPeriod THEN 422
            ELSE IF ~allocOK THEN 411
            ELSE 0
        temp == [k \in 1..(endPeriod - startPeriod) |->
                   smo_getSystemValue(h, startPeriod + k - 1, attr)]
    IN  SmoVals(h, errorcode, temp)

\* the attribute of every link at one period
SMO_getLinkAttribute(h, periodIndex, attr, allocOK) ==
    LET errorcode ==
            IF periodIndex < 0 \/ periodIndex >= h.Nperiods THEN 422
            ELSE IF ~allocOK THEN 411
            ELSE 0
        temp == [k \in 1..h.Nlinks |->
                   smo_getLinkValue(h, periodIndex, k - 1, attr)]
    IN  SmoVals(h, errorcode, temp)

\* every attribute of one link at one period: one fread of LinkVars records
SMO_getLinkResult(h, periodIndex, linkIndex, allocOK) ==
    LET errorcode ==
            IF periodIndex < 0 \/ periodIndex >= h.Nperiods THEN 422
            ELSE IF linkIndex < 0 \/ linkIndex > h.Nlinks THEN 423
            ELSE IF ~allocOK THEN 411
            ELSE 0
        offset == h.ResultsPos + periodIndex * h.BytesPerPeriod + 2 * RECORDSIZE
                  + (h.Nsubcatch * h.SubcatchVars + h.Nnodes * h.NodeVars
                     + linkIndex * h.LinkVars) * RECORDSIZE
        temp == [k \in 1..h.LinkVars |-> offset + (k - 1) * RECORDSIZE]
    IN  SmoVals(h, errorcode, temp)

\* every attribute of one subcatchment at one period
SMO_getSubcatchResult(h, periodIndex, subcatchIndex, allocOK) ==
    LET errorcode ==
            IF periodIndex < 0 \/ periodIndex >= h.Nperiods THEN 422
            ELSE IF subcatchIndex < 0 \/ subcatchIndex > h.Nsubcatch THEN 423
            ELSE IF ~allocOK THEN 411
            ELSE 0
        offset == h.ResultsPos + periodIndex * h.BytesPerPeriod + 2 * RECORDSIZE
                  + (subcatchIndex * h.SubcatchVars) * RECORDSIZE
        temp == [k \in 1..h.SubcatchVars |-> offset + (k - 1) * RECORDSIZE]
    IN  SmoVals(h, errorcode, temp)

\* every attribute of one node at one period
SMO_getNodeResult(h, periodIndex, nodeIndex, allocOK) ==
    LET errorcode ==
            IF periodIndex < 0 \/ periodIndex >= h.Nperiods THEN 422
            ELSE IF nodeIndex < 0 \/ nodeIndex > h.Nnodes THEN 423
            ELSE IF ~allocOK THEN 411
            ELSE 0
        offset == h.ResultsPos + periodIndex * h.BytesPerPeriod + 2 * RECORDSIZE
                  + (h.Nsubcatch * h.SubcatchVars + nodeIndex * h.NodeVars)
                    * RECORDSIZE
        temp == [k \in 1..h.NodeVars |-> offset + (k - 1) * RECORDSIZE]
    IN  SmoVals(h, errorcode, temp)

\* what the fread of SMO_getSystemResult into an array that was not
\* allocated does: the process is ended, or the call goes on
WildWrites == {"faults", "returns"}

\* every system variable at one period.  The block of lines 1181-1197
\* follows the if chain without an else: it is executed whatever errorcode,
\* with temp not initialised after 422 and NULL after 411; the array handed
\* to the caller is then not one of the file's (its values are left empty)
SMO_getSystemResult(h, periodIndex, allocOK, wild) ==
    LET errorcode ==
            IF periodIndex < 0 \/ periodIndex >= h.Nperiods THEN 422
            ELSE IF ~allocOK THEN 411
            ELSE 0
        offset == h.ResultsPos + periodIndex * h.BytesPerPeriod + 2 * RECORDSIZE
                  + (h.Nsubcatch * h.SubcatchVars + h.Nnodes * h.NodeVars
                     + h.Nlinks * h.LinkVars) * RECORDSIZE
        temp == [k \in 1..h.SysVars |-> offset + (k - 1) * RECORDSIZE]
        reads == {temp[k] : k \in DOMAIN temp}
        se == set_error(h.error_status, errorcode)
    IN  IF errorcode = 0 THEN SmoVals(h, errorcode, temp)
        ELSE IF wild = "faults"
        THEN [h |-> [h EXCEPT !.state = "faulted"], ret |-> errorcode,
              reads |-> reads, assigned |-> FALSE, values |-> <<>>]
        ELSE [h |-> [h EXCEPT !.error_status = se.status], ret |-> se.ret,
              reads |-> reads, assigned |-> TRUE, values |-> <<>>]

ElementTypes == {"SMO_subcatch", "SMO_node", "SMO_link", "SMO_sys"}

\* the name of an element: its place in the table of names, which
\* initElementNames reads from IDPos at the first call
SMO_getElementName(h, type, index) ==
    LET h1 == [h EXCEPT !.elementNames = TRUE]
        count == CASE type = "SMO_subcatch" -> h.Nsubcatch
                   [] type = "SMO_node" -> h.Nnodes
                   [] type = "SMO_link" -> h.Nlinks
                   [] OTHER -> 0
        first == CASE type = "SMO_subcatch" -> 0
                   [] type = "SMO_node" -> h.Nsubcatch
                   [] type = "SMO_link" -> h.Nsubcatch + h.Nnodes
                   [] OTHER -> 0
        errorcode == IF type = "SMO_sys" THEN 421
                     ELSE IF index < 0 \/ index >= count THEN 423
                     ELSE 0
        r == SmoVals(h1, errorcode, <<first + index>>)
    IN  IF h.state # "open" THEN SmoVals(h, 411, <<>>)
        ELSE [r EXCEPT !.reads = IF h.elementNames THEN {} ELSE {h.IDPos}]

SMO_clearError(h) ==
    SmoRet([h EXCEPT !.error_status = clear_error(@)], 0, {}, FALSE)

SMO_checkError(h) ==
    SmoRet(h, h.error_status, {}, check_error(h.error_status))

SMO_close(h) == SmoRet(SmoNull, 0, {}, FALSE)

\* a call of the reader with the arguments c, after the queries of chain
SmoQuery(op, c, r, chain) ==
    /\ smo' = r.h
    /\ smoLast' = [op |-> op, ret |-> r.ret, entry_status |-> smo.error_status,
                   reads |-> r.reads, assigned |-> r.assigned,
                   values |-> r.values, call |-> c, before |-> smo,
                   chain |-> chain]
    /\ UNCHANGED engVars

SmoCall(op, r) == SmoQuery(op, NoQuery, r, NoChain)

\* a handle is used between SMO_init and SMO_close; SMO_open is called once
SmoLive == smo.state \in {"init", "open"}

SmoInit == smo.state = "null" /\ SmoCall("init", SMO_init(smo))

SmoOpen == \E f \in OutFiles :
              smo.state = "init" /\ SmoCall("open", SMO_open(smo, f))

SmoGetSubcatchSeries ==
    \E i \in 0..(MaxSubcatch + 1), sp \in 0..MaxPeriods, ep \in 0..(MaxPeriods + 1),
       allocOK \in BOOLEAN :
        SmoLive /\ SmoCall("getSubcatchSeries",
                           SMO_getSubcatchSeries(smo, i, 0, sp, ep, allocOK))

SmoClearError == SmoLive /\ SmoCall("clearError", SMO_clearError(smo))

SmoCheckError == SmoLive /\ SmoCall("checkError", SMO_checkError(smo))

SmoClose == SmoLive /\ SmoCall("close", SMO_close(smo))

NextReader ==
    \/ SmoInit \/ SmoOpen \/ SmoGetSubcatchSeries
    \/ SmoClearError \/ SmoCheckError \/ SmoClose

----------------------------------------------------------------------------
(* Actions of the engine: one per API call; the API is single-threaded, so *)
(* a call is made only when none is in flight                              *)

CallFrom(e, op, arg, r) ==
    /\ pc = "idle"
    /\ pre' = Entry(e, phase)
    /\ eng' = r.e
    /\ last' = [op |-> op, arg |-> arg, ret |-> r.ret, elapsed |-> r.elapsed,
                did |-> r.did]
    /\ phase' = NextPhase(phase, op, e, r)
    /\ UNCHANGED <<pc, loc, inp, smo, smoLast>>

\* a call made by the client of the API
Call(op, arg, r) ==
    run.pc = "none" /\ CallFrom(eng, op, arg, r) /\ UNCHANGED <<run, prop, solver>>

Open == \E outcome \in OpenOutcomes :
            Call("open", 0, swmm_open(eng, outcome, inp))

Start == \E saveFlag \in BOOLEAN, outcome \in StartOutcomes :
            Call("start", 0, swmm_start(eng, saveFlag, outcome))

Step == \E k \in RoutingSteps(eng) : Call("step", 0, swmm_step(eng, k))

StrideCall == \E s \in StrideSteps :
    /\ pc = "idle"
    /\ LET en == swmm_stride_entry(eng, s)
       IN  /\ pre' = Entry(eng, phase)
           /\ eng' = en.r.e
           /\ last' = [op |-> "stride", arg |-> s, ret |-> en.r.ret,
                       elapsed |-> 0, did |-> {}]
           /\ pc' = IF en.entered THEN "stride_loop" ELSE "idle"
           /\ loc' = IF en.entered
                     THEN [realRouteStep |-> eng.RouteStep, strideStep |-> s,
                           elapsed |-> 0, did |-> {}]
                     ELSE LocInit
    /\ UNCHANGED <<phase, inp, smo, smoLast, run, prop, solver>>

StrideStep == \E k \in RoutingSteps(eng) :
    /\ pc = "stride_loop"
    /\ LET r == swmm_step(eng, k)
       IN  /\ eng' = r.e
           /\ loc' = [loc EXCEPT !.elapsed = r.elapsed, !.did = @ \cup r.did]
           /\ pc' = IF stride_continues(r) THEN "stride_loop" ELSE "stride_exit"
    /\ UNCHANGED <<pre, last, phase, inp, smo, smoLast, run, prop, solver>>

StrideReturn ==
    /\ pc = "stride_exit"
    /\ LET r == swmm_stride_exit(eng, loc)
       IN  /\ eng' = r.e
           /\ last' = [last EXCEPT !.ret = r.ret, !.elapsed = r.elapsed,
                                   !.did = r.did]
    /\ pc' = "idle"
    /\ loc' = LocInit
    /\ UNCHANGED <<pre, phase, inp, smo, smoLast, run, prop, solver>>

UseHotStart == \E valid \in BOOLEAN :
                  Call("useHotStart", 0, swmm_useHotStart(eng, valid))

End == Call("end", 0, swmm_end(eng))

Report == Call("report", 0, swmm_report(eng))

Close == Call("close", 0, swmm_close(eng))

SetValue == \E property \in SetProperties, value \in 0..MaxRouteStep :
               Call("setValue", value, swmm_setValue(eng, property, 0, value))

----------------------------------------------------------------------------
(* Calls of the property interface.  prop keeps the last write with the    *)
(* engine it found, and the last read.  A behaviour opens the project,     *)
(* starts it or not, and then makes one write and reads it back, or makes  *)
(* one read: no setter or getter looks at what an earlier call wrote       *)
(* except to the field it writes itself.                                   *)

\* an object type that has no properties
swmm_AQUIFER == 4

ObjTypes == {swmm_GAGE, swmm_SUBCATCH, swmm_NODE, swmm_LINK, swmm_AQUIFER,
             swmm_SYSTEM}

\* indexes given by a caller: every object type's number is among them
PropIndexes == {-1, 0, 1, 2, 3, 4, swmm_SYSTEM}

\* values given by a caller, in user units
PropValues == {-2, 0, 2}

NoCall == [form |-> "none", objType |-> 0, property |-> "none", index |-> 0,
           subIndex |-> 0, value |-> 0, ret |-> 0]

PropInit == [set |-> NoCall, before |-> EngInit, get |-> NoCall]

PropCall(form, objType, property, index, subIndex, value, ret) ==
    [form |-> form, objType |-> objType, property |-> property,
     index |-> index, subIndex |-> subIndex, value |-> value, ret |-> ret]

\* the writes whose behaviour the language defines: the class setters index
\* the pollutant arrays with subIndex unchecked, and setLinkValue writes a
\* mass flux through a null pointer before a simulation is started
WriteIsDefined(e, property, index, subIndex) ==
    /\ property \in PollutantProperties => InRange(subIndex, e.NPollut)
    /\ ~(/\ property = "swmm_LINK_POLLUTANT_LATMASS_FLUX"
         /\ ~e.IsStartedFlag /\ index = swmm_LINK /\ InRange(index, e.NLink))

\* a write is the first property call after a call of the lifecycle
CanWrite == run.pc = "none" /\ last.op \in {"none", "open", "start"}

SetCall(op, c, r) ==
    /\ CallFrom(eng, op, c.value, r)
    /\ prop' = [set |-> [c EXCEPT !.ret = r.ret], before |-> eng, get |-> NoCall]
    /\ UNCHANGED <<run, solver>>

SetProperty ==
    CanWrite /\
    \E property \in Properties, index \in PropIndexes, value \in PropValues :
        SetCall("setValue",
                PropCall("legacy", swmm_SYSTEM, property, index, 0, value, 0),
                swmm_setValue(eng, property, index, value))

SetPropertyExpanded ==
    CanWrite /\
    \E objType \in ObjTypes, property \in Properties, index \in PropIndexes,
       subIndex \in {0}, value \in PropValues :
        /\ WriteIsDefined(eng, property, index, subIndex)
        /\ SetCall("setValueExpanded",
                   PropCall("expanded", objType, property, index, subIndex,
                            value, 0),
                   swmm_setValueExpanded(eng, objType, property, index, subIndex,
                                         value))

\* the keys of a read: the key just written, in the form of the write,
\* when the read follows a write; any key otherwise
ReadKeys(form) ==
    IF last.op \in {"none", "open", "start"}
    THEN [ objType  : IF form = "legacy" THEN {swmm_SYSTEM} ELSE ObjTypes,
           property : Properties,
           index    : PropIndexes,
           subIndex : IF form = "legacy" THEN {0} ELSE {-1, 0, 1} ]
    ELSE IF last.op \in {"setValue", "setValueExpanded"} /\ prop.set.form = form
    THEN {[objType |-> prop.set.objType, property |-> prop.set.property,
           index |-> prop.set.index, subIndex |-> prop.set.subIndex]}
    ELSE {}

GetCall(op, form, k, value) ==
    /\ run.pc = "none"
    /\ CallFrom(eng, op, 0, Ret(eng, value, 0, {}))
    /\ prop' = [prop EXCEPT !.get = PropCall(form, k.objType, k.property,
                                             k.index, k.subIndex, 0, value)]
    /\ UNCHANGED <<run, solver>>

GetProperty ==
    \E k \in ReadKeys("legacy") :
        GetCall("getValue", "legacy", k,
                swmm_getValue(eng, k.property, k.index))

GetPropertyExpanded ==
    \E k \in ReadKeys("expanded") :
        GetCall("getValueExpanded", "expanded", k,
                swmm_getValueExpanded(eng, k.objType, k.property, k.index,
                                      k.subIndex))

----------------------------------------------------------------------------
(* swmm_run: lines 296-348, one action per call it makes *)

\* the quotient num / den of two doubles, kept as the pair it is computed from
Quotient(num, den) == [num |-> num, den |-> den]

\* a quotient of doubles lies in [0, 1]; 0.0 / 0.0 is a NaN, which lies in no
\* interval, and x / 0.0 is an infinity
InUnitInterval(q) == q.den > 0 /\ 0 <= q.num /\ q.num <= q.den

\* callback, progress and notified are those of swmm_run_with_callback: whether
\* the callback is not NULL, its local progress (line 363) and whether the
\* callback was called with it
RunInit == [pc |-> "none", scratch |-> FALSE, elapsedTime |-> 0, calls |-> <<>>,
            ret |-> 0, callback |-> FALSE, progress |-> Quotient(0, 1),
            notified |-> FALSE]

\* the calls made so far, with the repetitions of swmm_step written once
Called(calls, op) ==
    IF calls # <<>> /\ calls[Len(calls)] = op THEN calls ELSE Append(calls, op)

\* the report is written whatever the error code and the output file
run_reports_always(e, scratch) == TRUE

\* line 340
run_reports(e, scratch) == e.ErrorCode = 0 /\ scratch

\* lines 296-302; whether project_open is given no output file name, so that
\* Fout.mode is SCRATCH_FILE
RunBegin == \E scratch \in BOOLEAN :
    /\ pc = "idle" /\ run.pc \in {"none", "done"}
    /\ eng' = [eng EXCEPT !.IsOpenFlag = FALSE, !.IsStartedFlag = FALSE,
                          !.SaveResultsFlag = TRUE, !.ErrorCode = 0]
    /\ run' = [RunInit EXCEPT !.pc = "open", !.scratch = scratch]
    /\ UNCHANGED <<pc, loc, pre, last, phase, inp, smo, smoLast, prop, solver>>

RunCall(at, op, r, to) ==
    /\ run.pc = at
    /\ CallFrom(eng, op, 0, r)
    /\ run' = [run EXCEPT !.pc = to, !.calls = Called(@, op),
                          !.elapsedTime = IF op = "step" THEN r.elapsed ELSE @,
                          !.ret = IF op = "close" THEN r.e.ErrorCode ELSE @]
    /\ UNCHANGED <<prop, solver>>

\* lines 304-307
RunOpen == \E outcome \in OpenOutcomes :
    LET r == swmm_open(eng, outcome, inp)
    IN  RunCall("open", "open", r,
                IF r.e.ErrorCode # 0
                THEN (IF run_reports(r.e, run.scratch) THEN "report" ELSE "close")
                ELSE "start")

\* lines 310-313
RunStart == \E outcome \in StartOutcomes :
    LET r == swmm_start(eng, TRUE, outcome)
    IN  RunCall("start", "start", r, IF r.e.ErrorCode # 0 THEN "end" ELSE "step")

\* the loop repeated until an error only
run_loops_untilError(elapsedTime, e) == e.ErrorCode = 0

\* line 329 (and 395): while (elapsedTime > 0.0 && !ErrorCode)
run_loops(elapsedTime, e) == elapsedTime > 0 /\ e.ErrorCode = 0

\* lines 316-329
RunStep == \E k \in RoutingSteps(eng) :
    LET r == swmm_step(eng, k)
    IN  RunCall("step", "step", r,
                IF run_loops(r.elapsed, r.e) THEN "step" ELSE "end")

\* lines 336-340
RunEnd ==
    LET r == swmm_end(eng)
    IN  RunCall("end", "end", r,
                IF run_reports(r.e, run.scratch) THEN "report" ELSE "close")

\* line 343
RunReport == RunCall("report", "report", swmm_report(eng), "close")

\* lines 347-348
RunClose == RunCall("close", "close", swmm_close(eng), "done")

\* swmm_run_with_callback, lines 363-371; callback is whether it is given a
\* callback
RunWithCallbackBegin == \E scratch, callback \in BOOLEAN :
    /\ pc = "idle" /\ run.pc \in {"none", "done"}
    /\ eng' = [eng EXCEPT !.IsOpenFlag = FALSE, !.IsStartedFlag = FALSE,
                          !.SaveResultsFlag = TRUE, !.ErrorCode = 0]
    /\ run' = [RunInit EXCEPT !.pc = "open", !.scratch = scratch,
                              !.callback = callback]
    /\ UNCHANGED <<pc, loc, pre, last, phase, inp, smo, smoLast, prop, solver>>

\* lines 388-393
run_progress(e) == Quotient(e.NewRoutingTime, e.TotalDuration)

\* lines 384-395: the step, then the callback
RunWithCallbackStep == \E k \in RoutingSteps(eng) :
    LET r == swmm_step(eng, k)
    IN  /\ run.pc = "step"
        /\ CallFrom(eng, "step", 0, r)
        /\ run' = [run EXCEPT
                      !.pc = IF run_loops(r.elapsed, r.e)
                             THEN "step" ELSE "end",
                      !.calls = Called(@, "step"),
                      !.elapsedTime = r.elapsed,
                      !.progress = IF run.callback THEN run_progress(r.e) ELSE @,
                      !.notified = run.callback]
        /\ UNCHANGED <<prop, solver>>

\* swmm_run_with_callback: the calls of swmm_run, with its own step
NextRunWithCallback ==
    \/ RunWithCallbackBegin \/ RunOpen \/ RunStart \/ RunWithCallbackStep
    \/ RunEnd \/ RunReport \/ RunClose

NextRun ==
    \/ RunBegin \/ RunOpen \/ RunStart \/ RunStep \/ RunEnd \/ RunReport
    \/ RunClose

\* the states of a Solver (class SolverState)
SolverStates ==
    {"CREATED", "OPEN", "STARTED", "FINISHED", "ENDED", "REPORTED", "CLOSED"}

\* Solver.__cinit__: the object after construction; op, from and raised keep
\* the last method called, the state it found and whether it raised
Solver_cinit(save_results) ==
    [_solver_state |-> "CREATED", _save_results |-> save_results,
     _stride_step |-> 0, _total_duration |-> 0,
     op |-> "none", from |-> "CREATED", raised |-> FALSE]

\* before any call, with the input file one of projects
InitEngine(projects) ==
    /\ eng = EngInit
    /\ pc = "idle"
    /\ loc = LocInit
    /\ pre = Entry(EngInit, "UNINITIALIZED")
    /\ last = LastInit
    /\ phase = "UNINITIALIZED"
    /\ inp \in projects
    /\ smo = SmoNull
    /\ smoLast = SmoLastInit
    /\ run = RunInit
    /\ prop = PropInit

InitOf(projects) == InitEngine(projects) /\ solver = Solver_cinit(TRUE)

Init == InitOf(Projects)

\* the lifecycle and the clock
Next ==
    \/ Open \/ Start \/ Step \/ StrideCall \/ StrideStep \/ StrideReturn
    \/ End \/ Report \/ Close

Spec == Init /\ [][Next]_vars

\* the lifecycle with the hot-start and property calls, on one project
InitApi ==
    /\ Init
    /\ inp = [TotalDuration |-> Ticks(MaxDurationSecs), ReportStep |-> 1,
              WetStep |-> 1, RouteStep |-> Ticks(1), NSubcatch |-> 0, NNode |-> 1,
              ReportStart |-> 0, NGage |-> 0, NLink |-> 0, NPollut |-> 0]

NextApi == Next \/ UseHotStart \/ SetValue

SaveHotStart == \E saved \in BOOLEAN :
                   Call("saveHotStart", 0, swmm_saveHotStart(eng, saved))

\* the lifecycle, stepped call by call, with the two hot-start calls
NextHotStart ==
    \/ Open \/ Start \/ Step \/ End \/ Close \/ UseHotStart \/ SaveHotStart

SpecHotStart == InitApi /\ [][NextHotStart]_vars

SpecApi == InitApi /\ [][NextApi]_vars

\* the output reader
SpecReader == InitApi /\ [][NextReader]_vars

----------------------------------------------------------------------------
(* The queries of the reader on the files of a run: each behaviour opens   *)
(* one file and makes one query, or a series query of a link followed by   *)
(* the attribute query and the result query of the same result             *)

MaxLinks == 2

\* the files SMO_open is given: the period count stored may be negative, and
\* the reader is built with a long of 32 or of 64 bits
ResultFiles ==
    { OutFile(x, m, n, c, b, 1, l) :
        x \in BOOLEAN, m \in BOOLEAN, n \in -1..MaxPeriods, c \in {0, 1},
        b \in {32, 64}, l \in 1..MaxLinks }

\* indexes, attribute codes and periods given by a caller (every class of
\* the files has two variables)
QueryIndexes == -1..(MaxLinks + 1)
QueryAttrs == -1..2
QueryPeriods == -1..(MaxPeriods + 1)

SmoOpenFile ==
    \E f \in ResultFiles :
        smo.state = "init" /\ SmoQuery("open", f, SMO_open(smo, f), NoChain)

\* a query is made on the file just opened
CanQuery == smo.state = "open" /\ smoLast.op = "open"

SmoQuerySubcatchSeries ==
    CanQuery /\
    \E i \in QueryIndexes, a \in QueryAttrs, sp \in QueryPeriods,
       ep \in QueryPeriods, allocOK \in BOOLEAN :
        SmoQuery("getSubcatchSeries", Query(i, a, sp, ep),
                 SMO_getSubcatchSeries(smo, i, a, sp, ep, allocOK), NoChain)

SmoGetNodeSeries ==
    CanQuery /\
    \E i \in QueryIndexes, a \in QueryAttrs, sp \in QueryPeriods,
       ep \in QueryPeriods, allocOK \in BOOLEAN :
        SmoQuery("getNodeSeries", Query(i, a, sp, ep),
                 SMO_getNodeSeries(smo, i, a, sp, ep, allocOK), NoChain)

SmoGetLinkSeries ==
    CanQuery /\
    \E i \in QueryIndexes, a \in QueryAttrs, sp \in QueryPeriods,
       ep \in QueryPeriods, allocOK \in BOOLEAN :
        SmoQuery("getLinkSeries", Query(i, a, sp, ep),
                 SMO_getLinkSeries(smo, i, a, sp, ep, allocOK), NoChain)

SmoGetSystemSeries ==
    CanQuery /\
    \E a \in QueryAttrs, sp \in QueryPeriods, ep \in QueryPeriods,
       allocOK \in BOOLEAN :
        SmoQuery("getSystemSeries", Query(0, a, sp, ep),
                 SMO_getSystemSeries(smo, a, sp, ep, allocOK), NoChain)

\* the attribute queries made: any on the file just opened, and after a
\* series of a link the attribute of the series at each of its periods
LinkAttributeCalls ==
    IF smoLast.op = "open"
    THEN { [call |-> Query(0, a, p, p), allocOK |-> m, chain |-> NoChain] :
             a \in QueryAttrs, p \in QueryPeriods, m \in BOOLEAN }
    ELSE IF smoLast.op = "getLinkSeries" /\ smoLast.ret = 0
    THEN { [call |-> Query(0, smoLast.call.attr, p, p), allocOK |-> TRUE,
            chain |-> [NoChain EXCEPT
                         !.depth = 1,
                         !.series = QueryDone(smoLast.call, smoLast.values)]] :
             p \in smoLast.call.startPeriod..(smoLast.call.endPeriod - 1) }
    ELSE {}

SmoGetLinkAttribute ==
    \E c \in LinkAttributeCalls :
        /\ smo.state = "open"
        /\ SmoQuery("getLinkAttribute", c.call,
                    SMO_getLinkAttribute(smo, c.call.startPeriod, c.call.attr,
                                         c.allocOK),
                    c.chain)

\* the result queries made: any on the file just opened, and after a series
\* of a link and an attribute query at one of its periods the result of
\* that link at that period
LinkResultCalls ==
    IF smoLast.op = "open"
    THEN { [call |-> Query(i, 0, p, p), allocOK |-> m, chain |-> NoChain] :
             i \in QueryIndexes, p \in QueryPeriods, m \in BOOLEAN }
    ELSE IF /\ smoLast.op = "getLinkAttribute" /\ smoLast.ret = 0
            /\ smoLast.chain.depth = 1
    THEN { [call |-> Query(smoLast.chain.series.call.index, 0,
                           smoLast.call.startPeriod, smoLast.call.startPeriod),
            allocOK |-> TRUE,
            chain |-> [smoLast.chain EXCEPT
                         !.depth = 2,
                         !.attribute = QueryDone(smoLast.call, smoLast.values)]] }
    ELSE {}

SmoGetLinkResult ==
    \E c \in LinkResultCalls :
        /\ smo.state = "open"
        /\ SmoQuery("getLinkResult", c.call,
                    SMO_getLinkResult(smo, c.call.startPeriod, c.call.index,
                                      c.allocOK),
                    c.chain)

SmoGetElementName ==
    CanQuery /\
    \E type \in ElementTypes, i \in QueryIndexes :
        SmoQuery("getElementName", Query(i, 0, 0, 0),
                 SMO_getElementName(smo, type, i), NoChain)

NextQueries ==
    \/ SmoInit \/ SmoOpenFile
    \/ SmoQuerySubcatchSeries \/ SmoGetNodeSeries \/ SmoGetLinkSeries
    \/ SmoGetSystemSeries \/ SmoGetLinkAttribute \/ SmoGetLinkResult
    \/ SmoGetElementName

SpecQueries == InitApi /\ [][NextQueries]_vars

SmoGetSubcatchResult ==
    CanQuery /\
    \E i \in QueryIndexes, p \in QueryPeriods, allocOK \in BOOLEAN :
        SmoQuery("getSubcatchResult", Query(i, 0, p, p),
                 SMO_getSubcatchResult(smo, p, i, allocOK), NoChain)

SmoGetNodeResult ==
    CanQuery /\
    \E i \in QueryIndexes, p \in QueryPeriods, allocOK \in BOOLEAN :
        SmoQuery("getNodeResult", Query(i, 0, p, p),
                 SMO_getNodeResult(smo, p, i, allocOK), NoChain)

SmoGetSystemResult ==
    CanQuery /\
    \E p \in QueryPeriods, allocOK \in BOOLEAN, wild \in WildWrites :
        SmoQuery("getSystemResult", Query(0, 0, p, p),
                 SMO_getSystemResult(smo, p, allocOK, wild), NoChain)

NextResults ==
    \/ SmoInit \/ SmoOpenFile
    \/ SmoGetSubcatchResult \/ SmoGetNodeResult \/ SmoGetLinkResult
    \/ SmoGetSystemResult

\* the result queries of the reader, one on each file opened
SpecResults == InitApi /\ [][NextResults]_vars

\* the two error contexts: engine and reader share no state, and a behaviour
\* drives one of them
NextContexts ==
    \/ smoLast.op = "none" /\ NextApi
    \/ last.op = "none" /\ NextReader

SpecContexts == InitApi /\ [][NextContexts]_vars

\* projects whose reporting starts MaxReportStart seconds or less after the
\* start date
MaxReportStart == 2

ReportProjects ==
    [ TotalDuration : {Ticks(d) : d \in 1..MaxDurationSecs},
      ReportStep    : 1..MaxReportStep,
      WetStep       : 1..MaxWetStep,
      RouteStep     : {Ticks(1)},
      NSubcatch     : {0, 1},
      NNode         : {0, 1},
      ReportStart   : 0..MaxReportStart,
      NGage         : {0},
      NLink         : {0},
      NPollut       : {0} ]

\* the empty network run for an hour with a report every ten minutes
EmptyWetSteps == {300, 600, 900}

EmptyProjects ==
    [ TotalDuration : {Ticks(3600)},
      ReportStep    : {600},
      WetStep       : EmptyWetSteps,
      RouteStep     : {Ticks(1)},
      NSubcatch     : {0},
      NNode         : {0},
      ReportStart   : {0},
      NGage         : {0},
      NLink         : {0},
      NPollut       : {0} ]

InitRun == InitOf(ReportProjects \cup EmptyProjects)

\* the run facade
SpecRun == InitRun /\ [][NextRun]_vars

\* the step of the loop of swmm_run, and that of swmm_run_with_callback given
\* a callback (given none, its loop is the loop of swmm_run)
StepOfRun == ~run.callback /\ RunStep

StepOfRunWithCallback == run.callback /\ RunWithCallbackStep

\* swmm_step called by the client once a run has returned
StepAfterRun ==
    /\ run.pc = "done"
    /\ \E k \in RoutingSteps(eng) : CallFrom(eng, "step", 0, swmm_step(eng, k))
    /\ UNCHANGED <<run, prop, solver>>

NextLoop ==
    \/ RunBegin \/ RunWithCallbackBegin \/ RunOpen \/ RunStart
    \/ StepOfRun \/ StepOfRunWithCallback
    \/ RunEnd \/ RunReport \/ RunClose \/ StepAfterRun

\* both facades; the loop is sequential code of one thread, which goes on to
\* its next swmm_step for as long as its condition holds
SpecLoop ==
    /\ InitOf(ReportProjects) /\ [][NextLoop]_vars
    /\ WF_vars(StepOfRun) /\ WF_vars(StepOfRunWithCallback)

\* the run facade with a progress callback
SpecRunWithCallback == InitOf(ReportProjects) /\ [][NextRunWithCallback]_vars

----------------------------------------------------------------------------
(* The Solver class of the Python binding: initialize, step and finalize   *)
(* on one object.  A raise ends the method; _stride_step keeps the 0 of    *)
(* the constructor, so that step calls swmm_step.                          *)

\* the outcome of a method: the object, the engine, and the lifecycle calls
\* that returned 0
SolverRet(s, e, done) == [s |-> s, e |-> e, done |-> done]

Raises(s, op) == [s EXCEPT !.op = op, !.from = s._solver_state, !.raised = TRUE]

Completed(s, op, state) ==
    [s EXCEPT !.op = op, !.from = s._solver_state, !.raised = FALSE,
              !._solver_state = state]

\* the test of Solver.initialize and Solver.execute on the state
solver_state_invalid(s) ==
    (s._solver_state # "CREATED") \/ (s._solver_state # "CLOSED")

\* the test that only the states CREATED and CLOSED pass
solver_state_neither(s) ==
    (s._solver_state # "CREATED") /\ (s._solver_state # "CLOSED")

\* Solver.initialize
Solver_initialize(s, e, proj, openOutcome, startOutcome) ==
    IF solver_state_invalid(s) THEN SolverRet(Raises(s, "initialize"), e, <<>>)
    ELSE
    LET o == swmm_open(e, openOutcome, proj)
        t == swmm_start(o.e, s._save_results, startOutcome)
        duration == t.e.EndDateTime - t.e.StartDateTime
    IN  IF o.ret # 0
        THEN SolverRet(Raises(s, "initialize"), o.e, <<>>)
        ELSE IF t.ret # 0
        THEN SolverRet(Raises([s EXCEPT !._solver_state = "OPEN"], "initialize"),
                       t.e, <<"open">>)
        ELSE SolverRet([Completed(s, "initialize", "STARTED")
                           EXCEPT !._total_duration = duration],
                       t.e, <<"open", "start">>)

\* Solver.step: the division by a _total_duration of 0 raises
Solver_step(s, e, k) ==
    LET r == swmm_step(e, k)
    IN  IF r.ret # 0 \/ s._total_duration = 0
        THEN SolverRet(Raises(s, "step"), r.e, <<>>)
        ELSE SolverRet(Completed(s, "step", IF r.elapsed <= 0 THEN "FINISHED"
                                           ELSE s._solver_state),
                       r.e, <<>>)

\* Solver.finalize
Solver_finalize(s, e) ==
    IF s._solver_state \notin {"OPEN", "STARTED", "FINISHED"}
    THEN SolverRet(Completed(s, "finalize", s._solver_state), e, <<>>)
    ELSE
    LET n == swmm_end(e)
        r == swmm_report(n.e)
        c == swmm_close(r.e)
    IN  IF n.ret # 0 THEN SolverRet(Raises(s, "finalize"), n.e, <<>>)
        ELSE IF r.ret # 0
        THEN SolverRet(Raises([s EXCEPT !._solver_state = "ENDED"], "finalize"),
                       r.e, <<"end">>)
        ELSE IF c.ret # 0
        THEN SolverRet(Raises([s EXCEPT !._solver_state = "REPORTED"], "finalize"),
                       c.e, <<"end", "report">>)
        ELSE SolverRet(Completed(s, "finalize", "CLOSED"), c.e,
                       <<"end", "report", "close">>)

\* the lifecycle state after the calls of a method that returned 0
PhaseAfter(ph, done) ==
    IF done = <<>> THEN ph
    ELSE LET op == done[Len(done)]
         IN  IF op = "open" THEN "OPEN" ELSE IF op = "start" THEN "STARTED"
             ELSE IF op = "close" THEN "CLOSED" ELSE "ENDED"

SolverCall(r) ==
    /\ pc = "idle" /\ run.pc = "none"
    /\ solver' = r.s
    /\ eng' = r.e
    /\ phase' = PhaseAfter(phase, r.done)
    /\ UNCHANGED <<pc, loc, pre, last, inp, smo, smoLast, run, prop>>

SolverInitialize == \E openOutcome \in OpenOutcomes, startOutcome \in StartOutcomes :
    SolverCall(Solver_initialize(solver, eng, inp, openOutcome, startOutcome))

SolverStep == \E k \in RoutingSteps(eng) : SolverCall(Solver_step(solver, eng, k))

SolverFinalize == SolverCall(Solver_finalize(solver, eng))

NextSolver == SolverInitialize \/ SolverStep \/ SolverFinalize

\* a Solver constructed on one of the projects, saving results or not
InitSolver ==
    /\ InitEngine(Projects)
    /\ solver \in {Solver_cinit(save_results) : save_results \in BOOLEAN}

SpecSolver == InitSolver /\ [][NextSolver]_vars

\* a project with objects of every class: an object of each class bears the
\* number of its object type as index
PropsProject ==
    [TotalDuration |-> Ticks(MaxDurationSecs), ReportStep |-> 1, WetStep |-> 1,
     RouteStep |-> Ticks(1), NSubcatch |-> 2, NNode |-> 3, ReportStart |-> 0,
     NGage |-> 1, NLink |-> 4, NPollut |-> 1]

\* the same network with one node more, so that node 2 is a junction and
\* not the outfall
PropsProjects == {PropsProject, [PropsProject EXCEPT !.NNode = 4]}

InitProps == InitOf(PropsProjects)

\* the project opened, and started with its results saved
OpenProject ==
    last.op = "none" /\ Call("open", 0, swmm_open(eng, "ok", inp))

StartProject ==
    last.op = "open" /\ Call("start", 0, swmm_start(eng, TRUE, "ok"))

NextProps ==
    \/ OpenProject \/ StartProject
    \/ SetProperty \/ SetPropertyExpanded \/ GetProperty \/ GetPropertyExpanded

\* the property interface on an open and on a started project
SpecProps == InitProps /\ [][NextProps]_vars

\* the sub-indexes a caller gives a property of a pollutant: the project has
\* one pollutant
PollutSubIndexes == {-1, 0, 1}

\* the call reaches the store into the pollutant array of an object: the
\* switch of the expanded setter selects the class of the property, and the
\* object exists
StoresPollutant(e, property, index) ==
    /\ e.IsOpenFlag
    /\ \/ /\ property = "swmm_SUBCATCH_EXTERNAL_POLLUTANT_BUILDUP"
          /\ index = swmm_SUBCATCH /\ InRange(index, e.NSubcatch)
       \/ /\ property = "swmm_NODE_POLLUTANT_LATMASS_FLUX"
          /\ index = swmm_NODE /\ InRange(index, e.NNode)
       \/ /\ property = "swmm_LINK_POLLUTANT_LATMASS_FLUX"
          /\ index = swmm_LINK /\ InRange(index, e.NLink)

\* array[subIndex] = value; return 0; with subIndex outside the array (or
\* through the null pointer of setLinkValue): the store is undefined.  It
\* lands in memory that is no element of the array and the setter returns
\* what r returns, or it ends the process
wild_store(r, wild) ==
    IF wild = "faults"
    THEN Ret(r.e, r.ret, 0, {"wild_store", "process_ends"})
    ELSE Ret(r.e, r.ret, 0, {"wild_store"})

\* swmm_setValueExpanded on a property of a pollutant
SetPollutant ==
    CanWrite /\
    \E objType \in {swmm_SUBCATCH, swmm_NODE, swmm_LINK},
       property \in PollutantProperties, index \in PropIndexes,
       subIndex \in PollutSubIndexes, value \in PropValues, wild \in WildWrites :
        LET c == PropCall("expanded", objType, property, index, subIndex,
                          value, 0)
            r == swmm_setValueExpanded(eng, objType, property, index, subIndex,
                                       value)
            stores == StoresPollutant(eng, property, index)
        IN  IF stores /\ ~WriteIsDefined(eng, property, index, subIndex)
            THEN SetCall("setValueExpanded", c, wild_store(r, wild))
            ELSE wild = "returns" /\ SetCall("setValueExpanded", c, r)

NextPollut ==
    OpenProject \/ StartProject \/ SetPollutant \/ GetPropertyExpanded

\* the properties of the pollutants on an open and on a started project
SpecPollut == InitProps /\ [][NextPollut]_vars

\* the settings a caller gives a link
LinkSettings == {-2, 0, 1, 2}

\* the links a caller names: none, the conduit, the pump, an orifice
LinkIndexes == {-1, 0, 1, swmm_LINK}

StartLinks ==
    /\ last.op # "none" /\ eng.IsOpenFlag /\ ~eng.IsStartedFlag
    /\ phase = "OPEN"
    /\ Call("start", 0, swmm_start(eng, TRUE, "ok"))

\* a step of the nominal length, before the horizon
StepLinks ==
    /\ eng.IsStartedFlag /\ eng.NewRoutingTime < eng.RoutingDuration
    /\ Call("step", 0, swmm_step(eng, eng.RouteStep))

SetLinkSetting ==
    /\ run.pc = "none" /\ last.op # "none"
    /\ \E index \in LinkIndexes, value \in LinkSettings :
          SetCall("setValue",
                  PropCall("legacy", swmm_SYSTEM, "swmm_LINK_SETTING", index, 0,
                           value, 0),
                  swmm_setValue(eng, "swmm_LINK_SETTING", index, value))

SetLinkSettingExpanded ==
    /\ run.pc = "none" /\ last.op # "none"
    /\ \E index \in LinkIndexes, value \in LinkSettings :
          SetCall("setValueExpanded",
                  PropCall("expanded", swmm_LINK, "swmm_LINK_SETTING", index, 0,
                           value, 0),
                  swmm_setValueExpanded(eng, swmm_LINK, "swmm_LINK_SETTING",
                                        index, 0, value))

NextLinks ==
    \/ OpenProject \/ StartLinks \/ StepLinks
    \/ SetLinkSetting \/ SetLinkSettingExpanded

\* writes of link settings before and between the steps of a simulation
SpecLinks == InitOf({PropsProject}) /\ [][NextLinks]_vars

----------------------------------------------------------------------------
(* Properties of the lifecycle *)

Returned(op) == pc = "idle" /\ last.op = op

\* the call found the engine in a state other than the one it requires
OutOfOrder ==
    \/ last.op = "start" /\ (~pre.IsOpenFlag \/ pre.IsStartedFlag)
    \/ last.op \in {"step", "stride"} /\ (~pre.IsOpenFlag \/ ~pre.IsStartedFlag)
    \/ last.op = "useHotStart" /\ (~pre.IsOpenFlag \/ pre.IsStartedFlag)

LifecycleCode ==
    IF ~pre.IsOpenFlag THEN ERR_API_NOT_OPEN
    ELSE IF last.op \in {"step", "stride"} THEN ERR_API_NOT_STARTED
    ELSE ERR_API_NOT_ENDED

CursorsAndFlagsKept ==
    /\ eng.NewRoutingTime = pre.NewRoutingTime
    /\ eng.NewRunoffTime = pre.NewRunoffTime
    /\ eng.ReportTime = pre.ReportTime
    /\ eng.IsOpenFlag = pre.IsOpenFlag
    /\ eng.IsStartedFlag = pre.IsStartedFlag

\* C1: a lifecycle operation called out of order returns a non-zero error and
\* does none of its work: open on an open project, start unless open and not
\* started, step and stride unless started, report unless the simulation has
\* ended.
C1_OutOfOrderRejected ==
    pc = "idle" =>
        /\ (last.op = "open" /\ pre.IsOpenFlag) => (last.ret # 0 /\ last.did = {})
        /\ (last.op \in {"start", "step", "stride"} /\ OutOfOrder)
               => (last.ret # 0 /\ last.did = {})
        /\ (last.op = "report" /\ pre.phase # "ENDED")
               => (last.ret # 0 /\ last.did = {})

\* C2 as stated: an out-of-order start, step or stride returns the lifecycle
\* code of its state (not open, not ended, not started) and keeps the cursors
\* and the flags.
C2_LifecycleCodeAlways ==
    (pc = "idle" /\ last.op \in {"start", "step", "stride"} /\ OutOfOrder)
        => (last.ret = LifecycleCode /\ CursorsAndFlagsKept)

\* C2 amended: with the error code at zero an out-of-order start, step or
\* stride returns the lifecycle code of its state; with a non-zero error code
\* it returns that code; in both cases the cursors and the flags are kept.
C2_LifecycleCode ==
    (pc = "idle" /\ last.op \in {"start", "step", "stride"} /\ OutOfOrder)
        => /\ last.ret = IF pre.ErrorCode # 0 THEN pre.ErrorCode ELSE LifecycleCode
           /\ CursorsAndFlagsKept

C2_Witness ==
    /\ Returned("start") /\ pre.ErrorCode = 0 /\ pre.IsStartedFlag
    /\ pre.NewRoutingTime > 0 /\ last.ret = ERR_API_NOT_ENDED

Rank(ph) ==
    CASE ph = "UNINITIALIZED" -> 0 [] ph = "OPEN" -> 1 [] ph = "STARTED" -> 2
      [] ph = "ENDED" -> 3 [] ph = "CLOSED" -> 4

\* C3: a call that returns success never moves the lifecycle state backwards
\* in the order OPEN, STARTED, ENDED, CLOSED, except open after close; start
\* after end is not accepted.
C3_Monotone ==
    (pc = "idle" /\ last.ret = 0 /\ last.op \in {"open", "start", "end", "close"})
        => /\ \/ Rank(phase) >= Rank(pre.phase)
              \/ (pre.phase = "CLOSED" /\ phase = "OPEN")
           /\ ~(last.op = "start" /\ pre.phase = "ENDED")

C5_WithinHorizon ==
    (pc = "idle" /\ eng.IsStartedFlag)
        => /\ 0 <= eng.NewRoutingTime
           /\ eng.NewRoutingTime <= eng.RoutingDuration
           /\ eng.RoutingDuration <= eng.TotalDuration

\* C6: a stride of s >= 0 seconds on a started simulation that runs without
\* error advances the routing time by exactly
\* min(1000 s, TotalDuration - previous routing time).
C6_StrideExact ==
    (Returned("stride") /\ last.arg >= 0 /\ pre.IsStartedFlag
       /\ pre.ErrorCode = 0 /\ last.ret = 0)
        => eng.NewRoutingTime = pre.NewRoutingTime
              + MIN(Ticks(last.arg), eng.TotalDuration - pre.NewRoutingTime)

\* C7 as stated: on every return of stride RouteStep and RoutingDuration have
\* the values they had on entry, and RoutingDuration equals TotalDuration.
C7_StrideRestoresToTotal ==
    Returned("stride")
        => /\ eng.RouteStep = pre.RouteStep
           /\ eng.RoutingDuration = pre.RoutingDuration
           /\ eng.RoutingDuration = eng.TotalDuration

\* C7 amended: on every return of stride RouteStep and RoutingDuration have
\* the values they had on entry; RoutingDuration equals TotalDuration whenever
\* the call found a started simulation.
C7_StrideRestores ==
    Returned("stride")
        => /\ eng.RouteStep = pre.RouteStep
           /\ eng.RoutingDuration = pre.RoutingDuration
           /\ pre.IsStartedFlag => eng.RoutingDuration = eng.TotalDuration

C7_Witness ==
    /\ Returned("stride") /\ pre.ErrorCode = 0 /\ last.ret = ERR_TIMESTEP
    /\ Ticks(last.arg) < pre.RouteStep /\ "execRouting" \in last.did
    /\ pre.NewRoutingTime + Ticks(last.arg) < eng.TotalDuration

\* C8: with a non-zero error code a step or stride returns that code and
\* neither advances the routing time, emits a period nor saves a hot-start
\* file; end still closes the kernels of a started simulation; close still
\* releases the project and resets both flags.
C8_StickyStepCleanupRuns ==
    pc = "idle" =>
        /\ (last.op \in {"step", "stride"} /\ pre.ErrorCode # 0)
               => /\ last.ret = pre.ErrorCode /\ eng.ErrorCode = pre.ErrorCode
                  /\ last.did = {} /\ last.elapsed = 0
                  /\ eng.NewRoutingTime = pre.NewRoutingTime
                  /\ eng.ReportTime = pre.ReportTime
        /\ (last.op = "end" /\ pre.IsStartedFlag)
               => /\ "kernels_close" \in last.did
                  /\ eng.kernels = {} /\ ~eng.IsStartedFlag
        /\ last.op = "close"
               => /\ ~eng.IsOpenFlag /\ ~eng.IsStartedFlag
                  /\ pre.IsOpenFlag => ("project_close" \in last.did /\ ~eng.projectOpen)

C8_Witness ==
    /\ Returned("end") /\ pre.ErrorCode = ERR_TIMESTEP /\ pre.IsStartedFlag
    /\ "kernels_close" \in last.did /\ last.ret = ERR_TIMESTEP

\* C9: a lifecycle-order violation only returns its code: the engine,
\* its error code included, is as it was before the call.
C9_ViolationLeavesErrorCode ==
    (pc = "idle" /\ OutOfOrder /\ pre.ErrorCode = 0) => eng.ErrorCode = 0

ShortCircuits == {"start", "step", "stride", "useHotStart", "report"}

\* C10 as stated: once a context holds a non-zero code, every later operation
\* on it other than end, close or clear returns that code and does no work.
C10_EveryOperationShortCircuits ==
    /\ (pc = "idle" /\ pre.ErrorCode # 0 /\ last.op \notin {"none", "end", "close"})
           => (last.ret = pre.ErrorCode /\ last.did = {})
    /\ (smoLast.entry_status # 0
          /\ smoLast.op \in {"getSubcatchSeries", "checkError"})
           => (smoLast.ret = smoLast.entry_status /\ smoLast.reads = {})

\* C10 amended: once the engine holds a non-zero code, every later start,
\* step, stride, use_hot_start and report returns that code and does no work
\* (open resets the code; set_value does not consult it).  On a reader handle
\* a stored code stays until clear or a later error replaces it, and a query
\* made meanwhile is not short-circuited: it returns its own code, and one
\* that succeeds returns 0 with its output assigned and the stored code kept.
C10_ShortCircuitWhereChecked ==
    /\ (pc = "idle" /\ pre.ErrorCode # 0 /\ last.op \in ShortCircuits)
           => /\ last.ret = pre.ErrorCode /\ eng.ErrorCode = pre.ErrorCode
              /\ last.did = {}
    /\ (smoLast.op = "getSubcatchSeries" /\ smoLast.entry_status # 0)
           => /\ smoLast.ret = 0
                  => (smoLast.assigned /\ smo.error_status = smoLast.entry_status)
              /\ smoLast.ret # 0
                  => (~smoLast.assigned /\ smo.error_status = smoLast.ret)
    /\ (smoLast.op = "checkError") => smoLast.ret = smoLast.entry_status

C10_Witness ==
    /\ smoLast.op = "getSubcatchSeries" /\ smoLast.entry_status = 420
    /\ smoLast.ret = 0 /\ smoLast.reads # {} /\ smo.error_status = 420

----------------------------------------------------------------------------
(* Properties of the run facade *)

RunDone == run.pc = "done"

FullRun == <<"open", "start", "step", "end", "report", "close">>

\* C11 as stated: swmm_run returns the error code, ends with close, and on a
\* run without error has called open, start, step, end, report and close in
\* this order.
C11_RunReportsWheneverNoError ==
    RunDone => /\ run.ret = eng.ErrorCode
               /\ run.calls[Len(run.calls)] = "close"
               /\ run.ret = 0 => run.calls = FullRun

\* C11 amended: swmm_run returns the error code and ends with close; a run
\* without error has called open, start(TRUE), step until elapsed = 0, end,
\* then report only when the output file is a scratch file, then close; a
\* run with an error calls end only after open succeeded and never calls
\* report; before the return some call of the run is always possible.
C11_RunComposition ==
    /\ RunDone =>
          /\ run.ret = eng.ErrorCode
          /\ run.calls[Len(run.calls)] = "close"
          /\ (run.ret = 0 /\ run.scratch) => run.calls = FullRun
          /\ (run.ret = 0 /\ ~run.scratch)
                => run.calls = <<"open", "start", "step", "end", "close">>
          /\ run.ret = 0 => /\ run.elapsedTime = 0 /\ eng.SaveResultsFlag
                            /\ eng.NewRoutingTime >= eng.RoutingDuration
          /\ run.ret # 0
                => run.calls \in { <<"open", "close">>,
                                   <<"open", "start", "end", "close">>,
                                   <<"open", "start", "step", "end", "close">> }
    /\ run.pc \notin {"none", "done"} => ENABLED NextRun

C11_Witness ==
    /\ RunDone /\ run.ret = 0 /\ ~run.scratch
    /\ run.calls = <<"open", "start", "step", "end", "close">>
    /\ eng.Nperiods > 0

----------------------------------------------------------------------------
(* Properties of the reporting periods *)

\* the number of the first reporting time that is not before ReportStart
FirstPeriod(e) ==
    LET T == Ticks(e.ReportStep)
    IN  MAX(1, (e.ReportStart - Ticks(e.StartDateTime) + T - 1) \div T)

\* C12 as stated: the k-th period of the output file carries the time
\* k * ReportStep after the start date, and the periods increase in time.
C12_PeriodTimesFromStart ==
    \A p \in 1..Len(eng.periods) :
        /\ eng.periods[p] = p * Ticks(eng.ReportStep)
        /\ p > 1 => eng.periods[p - 1] < eng.periods[p]

\* C12 amended: the k-th call of output_saveResults carries the time
\* k * ReportStep, and the periods of the output file are those from
\* ReportStart on: period p (1-based) carries (FirstPeriod + p - 1) * ReportStep,
\* which is p * ReportStep when ReportStart is not after the first reporting
\* time; the periods increase in time and are counted by Nperiods.
C12_PeriodTimes ==
    /\ eng.Nperiods = Len(eng.periods)
    /\ \A p \in 1..Len(eng.periods) :
          /\ eng.periods[p] = (FirstPeriod(eng) + p - 1) * Ticks(eng.ReportStep)
          /\ p > 1 => eng.periods[p - 1] < eng.periods[p]
          /\ eng.ReportStart <= Ticks(eng.ReportStep)
                => eng.periods[p] = p * Ticks(eng.ReportStep)
    /\ eng.IsStartedFlag
          => eng.ReportTime = (FirstPeriod(eng) + Len(eng.periods)) * Ticks(eng.ReportStep)
             \/ eng.ReportTime < eng.ReportStart + Ticks(eng.ReportStep)

C12_Witness ==
    /\ RunDone /\ run.ret = 0 /\ Len(eng.periods) = 6
    /\ eng.periods[6] = Ticks(3600)

\* a run without error of a project with no subcatchments and no nodes whose
\* report step divides its duration
EmptyRunDone ==
    /\ RunDone /\ run.ret = 0 /\ eng.NSubcatch = 0 /\ eng.NNode = 0
    /\ eng.TotalDuration % Ticks(eng.ReportStep) = 0

\* C13 as stated: such a run emits TotalDuration / ReportStep periods, 6 for
\* the project of 3600 s with a report step of 600 s, whatever the wet step.
C13_PeriodCountIsQuotient ==
    EmptyRunDone => eng.Nperiods = eng.TotalDuration \div Ticks(eng.ReportStep)

\* C13 amended: such a run, started with saveResults set, emits the reporting
\* times from FirstPeriod to TotalDuration / ReportStep; these are
\* TotalDuration / ReportStep periods when ReportStart is not after the first
\* reporting time, and 6 for the project of 3600 s with a report step of 600 s,
\* whatever the wet step.
C13_PeriodCount ==
    (EmptyRunDone /\ eng.SaveResultsFlag) =>
        LET n == eng.TotalDuration \div Ticks(eng.ReportStep)
        IN  /\ eng.Nperiods = MAX(0, n - (FirstPeriod(eng) - 1))
            /\ eng.ReportStart <= Ticks(eng.ReportStep) => eng.Nperiods = n
            /\ inp \in EmptyProjects => eng.Nperiods = 6

C13_Witness ==
    /\ EmptyRunDone /\ inp \in EmptyProjects /\ inp.WetStep = 900
    /\ eng.Nperiods = 6

\* a step of a started simulation of the empty network, made without error
EmptyStep ==
    /\ Returned("step") /\ inp \in EmptyProjects
    /\ pre.IsStartedFlag /\ pre.ErrorCode = 0 /\ last.ret = 0

\* C14 as stated: the first step of the empty network run for 3600 s with a
\* report step of 600 s returns elapsed = 0.
C14_FirstStepReturnsZero ==
    (EmptyStep /\ pre.NewRoutingTime = 0) => last.elapsed = 0

\* C14 amended: the first step of that simulation advances the routing time
\* by min(WetStep, 600) seconds and returns that positive elapsed time; every
\* step advances by as much, up to 3600 s, and the step that returns
\* elapsed = 0 is the one that brings the routing time to 3600 s.
C14_FirstStepAdvances ==
    EmptyStep =>
        /\ eng.NewRoutingTime
              = MIN(pre.NewRoutingTime + Ticks(MIN(eng.WetStep, 600)), Ticks(3600))
        /\ last.elapsed = 0 <=> eng.NewRoutingTime = Ticks(3600)
        /\ pre.NewRoutingTime = 0
              => (last.elapsed = Ticks(MIN(eng.WetStep, 600)) /\ last.elapsed > 0)

C14_Witness ==
    /\ EmptyStep /\ pre.NewRoutingTime = 0 /\ eng.WetStep = 900
    /\ last.elapsed = Ticks(600)

----------------------------------------------------------------------------
(* Properties of the property interface *)

\* the last call was a write through the expanded setter on an open project
ExpandedWrite ==
    pc = "idle" /\ last.op = "setValueExpanded" /\ prop.before.IsOpenFlag

\* the last call was a write through the legacy setter on an open project
LegacyWrite == pc = "idle" /\ last.op = "setValue" /\ prop.before.IsOpenFlag

\* what the setter of the class of the written key makes of the write
WriteByObjType ==
    setValueOfClass(prop.before, prop.set.objType, prop.set.property,
                    prop.set.index, prop.set.subIndex, prop.set.value)

\* C15: the expanded set_value selects the setter by object_type and applies
\* it to object index, whatever the number index is: the engine after the
\* call and the code returned are those of the setter of the class object_type
\* names, as the expanded get_value returns the value of the getter of the
\* class object_type names.
C15_SetterSelectedByObjType ==
    ExpandedWrite =>
        /\ eng = WriteByObjType.e
        /\ prop.set.ret = WriteByObjType.ret

\* the last call was a write while a simulation was started that reached the
\* setter of the system: through the legacy setter, or through the expanded
\* one with the system as object type and as selector
StartedSystemWrite ==
    /\ prop.before.IsStartedFlag
    /\ prop.set.property \in SystemProperties
    /\ \/ LegacyWrite
       \/ /\ ExpandedWrite
          /\ prop.set.objType = swmm_SYSTEM /\ prop.set.index = swmm_SYSTEM

StepsKept ==
    /\ eng.ReportStep = prop.before.ReportStep
    /\ eng.RuleStep = prop.before.RuleStep
    /\ eng.MinRouteStep = prop.before.MinRouteStep
    /\ eng.LengtheningStep = prop.before.LengtheningStep

\* C16: while a simulation is started, a set_value of route_step with a
\* positive value returns 0 and makes the routing step the value written
\* (the minimum routing step when the value is below it), and a set_value of
\* report_step, rule_step, min_route_step or lengthening_step returns an
\* error and leaves these four steps as they were.
C16_RouteStepOnlyWhileStarted ==
    StartedSystemWrite =>
        /\ prop.set.property = "swmm_ROUTESTEP" /\ prop.set.value > 0 =>
               /\ prop.set.ret = 0
               /\ eng.RouteStep =
                      MAX(Ticks(prop.set.value), prop.before.MinRouteStep)
        /\ prop.set.property \in {"swmm_REPORTSTEP", "swmm_RULESTEP",
                                  "swmm_MINROUTESTEP", "swmm_LENGTHENINGSTEP"} =>
               prop.set.ret # 0 /\ StepsKept

\* the last call was a write, in either form, while a simulation was started
StartedWrite == prop.before.IsStartedFlag /\ (LegacyWrite \/ ExpandedWrite)

\* C17: while a simulation is started, no set_value call, legacy or expanded,
\* changes the system's time bounds (start date, end date, report start,
\* total duration) or solver flags, any subcatchment's area, width, slope or
\* curb length, any node's invert, maximum depth, initial depth, ponded area
\* or surcharge depth, or the report flag of any object or of the system.
C17_StaticKeptWhileStarted ==
    StartedWrite =>
        /\ eng.StartDateTime = prop.before.StartDateTime
        /\ eng.EndDateTime = prop.before.EndDateTime
        /\ eng.ReportStart = prop.before.ReportStart
        /\ eng.TotalDuration = prop.before.TotalDuration
        /\ eng.AllowPonding = prop.before.AllowPonding
        /\ eng.RptDisabled = prop.before.RptDisabled
        /\ \A i \in DOMAIN eng.Subcatch :
             \A f \in {"area", "width", "slope", "curbLength", "rptFlag"} :
                eng.Subcatch[i][f] = prop.before.Subcatch[i][f]
        /\ \A i \in DOMAIN eng.Node :
             \A f \in {"invertElev", "fullDepth", "initDepth", "pondedArea",
                       "surDepth", "rptFlag"} :
                eng.Node[i][f] = prop.before.Node[i][f]
        /\ \A i \in DOMAIN eng.Link : eng.Link[i].rptFlag = prop.before.Link[i].rptFlag

\* a write of a report flag to an object that exists was made while started,
\* and so was a write that the engine accepted and stored
C17_Witness ==
    /\ StartedWrite
    /\ \/ /\ LegacyWrite /\ prop.set.property = "swmm_NODE_RPTFLAG"
          /\ InRange(prop.set.index, eng.NNode) /\ prop.set.value > 0
       \/ /\ ExpandedWrite /\ prop.set.property = "swmm_SUBCATCH_AREA"
          /\ prop.set.index = swmm_SUBCATCH /\ prop.set.value > 0
          /\ prop.set.ret = ERR_API_IS_RUNNING

\* the link properties that the started branch of setLinkValue has no case for
LinkGeometry ==
    {"swmm_LINK_OFFSET1", "swmm_LINK_OFFSET2", "swmm_LINK_INITIAL_FLOW",
     "swmm_LINK_INLET_LOSS", "swmm_LINK_OUTLET_LOSS", "swmm_LINK_AVERAGE_LOSS",
     "swmm_LINK_HAS_FLAPGATE"}

\* the last call was an expanded write while started that reached the setter
\* of the links with a link that exists
StartedLinkWrite ==
    /\ StartedWrite /\ ExpandedWrite
    /\ prop.set.index = swmm_LINK /\ InRange(prop.set.index, prop.before.NLink)

\* C18 as stated: while a simulation is started, every write of a link's
\* offsets, loss coefficients, seepage rate, flow limit or flap-gate flag
\* returns an error and leaves the links unchanged.
C18_LinkGeometryAndLimitsRejected ==
    (StartedWrite /\ prop.set.property \in
         LinkGeometry \cup {"swmm_LINK_SEEPAGE_RATE", "swmm_LINK_FLOW_LIMIT"}) =>
        prop.set.ret # 0 /\ eng.Link = prop.before.Link

\* C18 as the code has it: while a simulation is started, every write of a
\* link's offsets, initial flow, loss coefficients or flap-gate flag returns
\* an error and leaves the links unchanged; a write of the flow limit that
\* reaches the link is accepted and stored, and so is a write of a seepage
\* rate that is not negative, while a negative seepage rate is refused with
\* the property-value error and the links are unchanged.
C18_LinkGeometryRejected ==
    /\ (StartedWrite /\ prop.set.property \in LinkGeometry) =>
           prop.set.ret # 0 /\ eng.Link = prop.before.Link
    /\ (StartedLinkWrite /\ prop.set.property = "swmm_LINK_FLOW_LIMIT") =>
           /\ prop.set.ret = 0
           /\ eng.Link[prop.set.index].qLimit = prop.set.value \div UCF("FLOW")
    /\ (StartedLinkWrite /\ prop.set.property = "swmm_LINK_SEEPAGE_RATE") =>
           IF prop.set.value >= 0
           THEN /\ prop.set.ret = 0
                /\ eng.Link[prop.set.index].seepRate =
                       prop.set.value \div UCF("RAINFALL")
           ELSE /\ prop.set.ret = ERR_API_PROPERTY_VALUE
                /\ eng.Link = prop.before.Link

\* a flow limit was written to a link while started and changed the link
C18_Witness ==
    /\ StartedLinkWrite
    /\ prop.set.property = "swmm_LINK_FLOW_LIMIT" /\ prop.set.value = 2
    /\ eng.Link[prop.set.index].qLimit # prop.before.Link[prop.set.index].qLimit

\* the properties that the specification lists as writable during simulation
RuntimeWritable ==
    {"swmm_GAGE_RAINFALL", "swmm_SUBCATCH_API_RAINFALL",
     "swmm_SUBCATCH_API_SNOWFALL", "swmm_SUBCATCH_EXTERNAL_POLLUTANT_BUILDUP",
     "swmm_NODE_LATFLOW", "swmm_NODE_HEAD", "swmm_LINK_SETTING",
     "swmm_ROUTESTEP"}

\* the number of objects of the class of a property
CountOf(e, property) ==
    IF property \in GageProperties THEN e.NGage
    ELSE IF property \in SubcatchProperties THEN e.NSubcatch
    ELSE IF property \in NodeProperties THEN e.NNode
    ELSE e.NLink

\* the last call read the key that the call before it had written with
\* success: the write returned 0, its value was not negative, and it
\* addressed the system or an object that exists, of the class of the
\* property (in the expanded form: the object whose index is the number of
\* its object type)
ReadBack ==
    /\ pc = "idle" /\ last.op \in {"getValue", "getValueExpanded"}
    /\ prop.set.form = prop.get.form /\ prop.set.form # "none"
    /\ prop.before.IsOpenFlag
    /\ prop.set.ret = 0 /\ prop.set.value >= 0
    /\ \/ prop.set.property \in SystemProperties
       \/ InRange(prop.set.index, CountOf(eng, prop.set.property))
    /\ prop.set.form = "expanded" =>
          /\ prop.set.objType = prop.set.index
          /\ prop.set.property \in SystemProperties => prop.set.index = swmm_SYSTEM

\* C19: for every property that is writable during simulation (gage
\* rainfall, subcatchment API rainfall and snowfall, external pollutant
\* buildup, node lateral inflow, outfall stage, link setting, route_step), a
\* get_value that immediately follows a successful set_value on the same key
\* returns the value written.
C19_ReadBackReturnsWritten ==
    (ReadBack /\ prop.set.property \in RuntimeWritable) =>
        prop.get.ret = prop.set.value

\* the object type of the class of a property
ClassOf(property) ==
    IF property \in GageProperties THEN swmm_GAGE
    ELSE IF property \in SubcatchProperties THEN swmm_SUBCATCH
    ELSE IF property \in NodeProperties THEN swmm_NODE
    ELSE IF property \in LinkProperties THEN swmm_LINK
    ELSE swmm_SYSTEM

\* the last call read a property of an object class, in the expanded form
\* with the object type of that class, on an open project
ObjectRead ==
    /\ pc = "idle" /\ last.op \in {"getValue", "getValueExpanded"}
    /\ eng.IsOpenFlag
    /\ ClassOf(prop.get.property) # swmm_SYSTEM
    /\ prop.get.form = "expanded" => prop.get.objType = ClassOf(prop.get.property)

\* the object index of the read is not that of an object, or its property is
\* one per pollutant and its sub-index is not that of a pollutant
ReadOutOfRange ==
    \/ ~InRange(prop.get.index, CountOf(eng, prop.get.property))
    \/ /\ prop.get.form = "expanded"
       /\ prop.get.property \in PollutantProperties
       /\ ~InRange(prop.get.subIndex, eng.NPollut)

ErrorSentinels ==
    {ERR_API_NOT_OPEN, ERR_API_OBJECT_TYPE, ERR_API_OBJECT_INDEX,
     ERR_API_PROPERTY_TYPE}

\* C20: for each object class (gage, subcatchment, node, link), a get_value
\* whose object index is outside [0, count) or whose per-pollutant sub-index
\* is outside [0, pollutant count) returns an error sentinel, never an
\* ordinary value such as 0.
C20_OutOfRangeReadIsError ==
    (ObjectRead /\ ReadOutOfRange) => prop.get.ret \in ErrorSentinels

\* the last call wrote a route_step that is not positive: through the legacy
\* setter, or through the expanded one with the system as object type
NonPositiveRouteStepWrite ==
    /\ prop.set.property = "swmm_ROUTESTEP" /\ prop.set.value <= 0
    /\ \/ LegacyWrite
       \/ ExpandedWrite /\ prop.set.objType = swmm_SYSTEM

RouteStepKept ==
    /\ eng.RouteStep = prop.before.RouteStep
    /\ eng.CourantFactor = prop.before.CourantFactor

\* C21: every set_value of route_step with a value <= 0, through the legacy
\* or the expanded setter, returns the property-value error and leaves the
\* routing step and the Courant factor as they were.
C21_NonPositiveRouteStepRejected ==
    NonPositiveRouteStepWrite =>
        prop.set.ret = ERR_API_PROPERTY_VALUE /\ RouteStepKept

\* the last call wrote the head of a node that exists: through the legacy
\* setter, or through the expanded one with the nodes as object type
NodeHeadWrite ==
    /\ prop.set.property = "swmm_NODE_HEAD"
    /\ InRange(prop.set.index, prop.before.NNode)
    /\ \/ LegacyWrite
       \/ ExpandedWrite /\ prop.set.objType = swmm_NODE

\* the node of the last write is an outfall
WrittenNodeIsOutfall == prop.before.Node[prop.set.index].type = "OUTFALL"

\* the stage of the written node is the value written and its type is fixed
StageFixed ==
    /\ eng.Node[prop.set.index].fixedStage = prop.set.value \div UCF("LENGTH")
    /\ eng.Node[prop.set.index].outfallType = "FIXED_OUTFALL"

\* C22: a set_value of the head of node i, legacy or expanded, succeeds only
\* if node i is an outfall, and then the fixed stage is stored and the
\* outfall's type becomes FIXED; for a node that is no outfall the call
\* returns the object-type error and changes nothing.
C22_HeadOnlyOfOutfall ==
    NodeHeadWrite =>
        IF WrittenNodeIsOutfall
        THEN prop.set.ret = 0 /\ StageFixed
        ELSE prop.set.ret = ERR_API_OBJECT_TYPE /\ eng = prop.before

\* the codes of a write refused for its object type, its object index, its
\* property code or its value
ValueErrors ==
    {ERR_API_OBJECT_TYPE, ERR_API_OBJECT_INDEX, ERR_API_PROPERTY_TYPE,
     ERR_API_PROPERTY_VALUE}

\* the last call was a write, in either form, that returned a value error
RefusedWrite ==
    (LegacyWrite \/ ExpandedWrite) /\ prop.set.ret \in ValueErrors

\* C23: every set_value call that returns a value error (bad object type, bad
\* index, bad property or bad value) leaves all of the engine's state as it
\* was before the call.
C23_ValueErrorKeepsState == RefusedWrite => eng = prop.before

\* a negative area was refused to a subcatchment that exists, and a route
\* step that is not positive was refused by the setter of the system
C23_Witness ==
    /\ RefusedWrite /\ ExpandedWrite
    /\ prop.set.ret = ERR_API_PROPERTY_VALUE
    /\ prop.set.value < 0
    /\ \/ /\ prop.set.property = "swmm_SUBCATCH_AREA"
          /\ prop.set.index = swmm_SUBCATCH
       \/ /\ prop.set.property = "swmm_ROUTESTEP"
          /\ prop.set.index = swmm_SYSTEM

----------------------------------------------------------------------------
(* Properties of the output reader's queries *)

\* the last call opened a file that exists
FileOpened == smoLast.op = "open" /\ smoLast.call.exists

\* the counts of the header and the period count of the epilogue are in the
\* handle, with the bytes of a period computed from them
HeaderLoaded ==
    LET f == smoLast.call
    IN  /\ smo.state = "open"
        /\ smo.Nperiods = f.Nperiods
        /\ \A k \in HeaderFields \cup {"Nsubcatch", "IDPos", "ResultsPos"} :
              smo[k] = f[k]
        /\ smo.BytesPerPeriod =
              DATESIZE + (f.Nsubcatch * f.SubcatchVars + f.Nnodes * f.NodeVars
                          + f.Nlinks * f.LinkVars + f.SysVars) * RECORDSIZE

\* C24: opening an output file fails with the invalid-file error (435) when
\* the magic numbers of header and epilogue differ; otherwise it fails with
\* the no-results error (436) when the period count stored is <= 0; otherwise
\* it succeeds with the header fields loaded, and returns only the warning
\* status (10), not a failure, when the error code stored is not zero.
C24_OpenValidatesFile ==
    FileOpened =>
        LET f == smoLast.call
        IN  IF ~f.magicOK THEN smoLast.ret = 435 /\ smo.state # "open"
            ELSE IF f.Nperiods <= 0 THEN smoLast.ret = 436 /\ smo.state # "open"
            ELSE /\ smoLast.ret = (IF f.errcode # 0 THEN 10 ELSE 0)
                 /\ smo.error_status = 0
                 /\ HeaderLoaded

SeriesQueries == {"getSubcatchSeries", "getNodeSeries", "getLinkSeries"}

\* the last call was a series query or a result query of an element, made on
\* an open file
ElementQuery ==
    /\ smoLast.op \in SeriesQueries \cup {"getLinkResult"}
    /\ smoLast.before.state = "open"

\* the number of elements of the class that the last query is about
ElementCount ==
    CASE smoLast.op = "getSubcatchSeries" -> smoLast.before.Nsubcatch
      [] smoLast.op = "getNodeSeries" -> smoLast.before.Nnodes
      [] OTHER -> smoLast.before.Nlinks

\* the periods of the last query are periods of the file, in order
PeriodsInFile ==
    /\ 0 <= smoLast.call.startPeriod
    /\ smoLast.call.startPeriod < smoLast.before.Nperiods
    /\ smoLast.op \in SeriesQueries \cup {"getSystemSeries"} =>
          /\ smoLast.call.startPeriod < smoLast.call.endPeriod
          /\ smoLast.call.endPeriod <= smoLast.before.Nperiods

\* C25: every series query and result query of the reader for subcatchments,
\* nodes or links rejects an element index outside [0, n_elements): it reads
\* nothing from the file and returns an error, the index error when the
\* periods asked for are periods of the file; index = n_elements is rejected
\* like any other.
C25_ElementIndexChecked ==
    (ElementQuery /\ ~InRange(smoLast.call.index, ElementCount)) =>
        /\ smoLast.ret # 0 /\ smoLast.reads = {} /\ ~smoLast.assigned
        /\ PeriodsInFile => smoLast.ret \in {420, 423}

\* the number of variables that the file has for the class that the last
\* query is about
VariableCount ==
    CASE smoLast.op = "getSubcatchSeries" -> smoLast.before.SubcatchVars
      [] smoLast.op = "getNodeSeries" -> smoLast.before.NodeVars
      [] smoLast.op = "getSystemSeries" -> smoLast.before.SysVars
      [] OTHER -> smoLast.before.LinkVars

\* the last call was a series query on an open file, of a variable of the
\* file, for the system or for an element that exists
SeriesQuery ==
    /\ smoLast.op \in SeriesQueries \cup {"getSystemSeries"}
    /\ smoLast.before.state = "open"
    /\ smoLast.op \in SeriesQueries => InRange(smoLast.call.index, ElementCount)
    /\ InRange(smoLast.call.attr, VariableCount)

\* the period of the file that a byte offset of the results lies in
PeriodOf(offset) ==
    (offset - smoLast.before.ResultsPos) \div smoLast.before.BytesPerPeriod

\* C26: a series query of the reader over [start_period, end_period) succeeds
\* only if 0 <= start_period < end_period <= n_periods and returns the
\* period-range error (422) otherwise, so that nothing is read of a period
\* whose index is n_periods or more.
C26_SeriesPeriodsChecked ==
    SeriesQuery =>
        /\ IF PeriodsInFile THEN smoLast.ret \in {0, 411}
           ELSE smoLast.ret = 422 /\ smoLast.reads = {}
        /\ \A offset \in smoLast.reads :
              PeriodOf(offset) < smoLast.before.Nperiods

\* the last call was a series query or an attribute query on an open file
\* whose attribute code is none of the variables of the class
UnknownAttributeQuery ==
    /\ smoLast.op \in SeriesQueries \cup {"getSystemSeries", "getLinkAttribute"}
    /\ smoLast.before.state = "open"
    /\ ~InRange(smoLast.call.attr, VariableCount)

\* C27: a series query or an attribute query of the reader whose attribute
\* code is not among the variables the file has for the class (code < 0 or
\* code >= the class's variable count) reads nothing and returns an error,
\* the property-code error (421) when the element and the periods asked for
\* are in the file.
C27_AttributeCodeChecked ==
    UnknownAttributeQuery =>
        /\ smoLast.ret # 0 /\ smoLast.reads = {} /\ ~smoLast.assigned
        /\ (/\ PeriodsInFile
            /\ smoLast.op \in SeriesQueries =>
                  InRange(smoLast.call.index, ElementCount))
              => smoLast.ret = 421

\* the last call was the result query that followed a series query of a link
\* and the attribute query at one of its periods, all three successful, the
\* link and the attribute being a link and a link variable of the file
SameLinkResult ==
    /\ smoLast.op = "getLinkResult" /\ smoLast.ret = 0
    /\ smoLast.chain.depth = 2
    /\ InRange(smoLast.chain.series.call.index, smoLast.before.Nlinks)
    /\ InRange(smoLast.chain.series.call.attr, smoLast.before.LinkVars)

\* C28: for every link i, link variable a and period p of the file, the
\* value at position p of the series of (i, a), the value of element i of
\* the attribute query of (p, a) and the value of element a of the result
\* query of (p, i) are the float at one and the same byte offset.
C28_LinkQueriesAgree ==
    SameLinkResult =>
        LET series == smoLast.chain.series
            attribute == smoLast.chain.attribute
            i == series.call.index
            a == series.call.attr
            p == smoLast.call.startPeriod
            k == p - series.call.startPeriod + 1
        IN  /\ k \in DOMAIN series.values
            /\ series.values[k] = attribute.values[i + 1]
            /\ series.values[k] = smoLast.values[a + 1]
            /\ series.values[k] = smo_getLinkValue(smoLast.before, p, i, a)

\* the three queries were made for the second variable of the second link
\* at the second period of a file
C28_Witness ==
    /\ SameLinkResult
    /\ smoLast.chain.series.call.index = 1
    /\ smoLast.chain.series.call.attr = 1
    /\ smoLast.call.startPeriod = 1
    /\ smoLast.chain.series.call.startPeriod = 0
    /\ Len(smoLast.chain.series.values) = 2

----------------------------------------------------------------------------
(* Properties of the error manager and of the hot-start calls *)

\* the last call of the reader ended with set_error(handle, code), whose
\* return it returned
SetErrorCalled == smoLast.op = "getSubcatchSeries"

\* C29: on an error context, set_error with code 0 leaves the stored status
\* as it was and returns 0, and set_error with a code that is not 0 makes
\* the stored status that code, hence not 0; a status that is not 0 is still
\* not 0 after any set_error or check_error, and is 0 after clear_error.
C29_StatusKeptUntilCleared ==
    /\ SetErrorCalled =>
          IF smoLast.ret = 0 THEN smo.error_status = smoLast.entry_status
          ELSE smo.error_status = smoLast.ret
    /\ (smoLast.op \in {"getSubcatchSeries", "checkError"}
          /\ smoLast.entry_status # 0) => smo.error_status # 0
    /\ smoLast.op = "checkError" =>
          /\ smo.error_status = smoLast.entry_status
          /\ smoLast.assigned = (smoLast.entry_status # 0)
    /\ smoLast.op = "clearError" => smo.error_status = 0

\* set_error was called with 0 on a context that held the period-range error
C29_Witness ==
    /\ SetErrorCalled /\ smoLast.entry_status = 422
    /\ smoLast.ret = 0 /\ smo.error_status = 422

HotStartCalls == {"useHotStart", "saveHotStart"}

LifecycleErrors == {ERR_API_NOT_OPEN, ERR_API_NOT_STARTED, ERR_API_NOT_ENDED}

\* the engine is in no state for the hot-start call op: use_hot_start needs
\* a project open and no simulation started, save_hot_start one started
NoStateFor(op) ==
    \/ ~eng.IsOpenFlag
    \/ op = "useHotStart" /\ eng.IsStartedFlag
    \/ op = "saveHotStart" /\ ~eng.IsStartedFlag

\* the step is a hot-start call that changes no hot-start file: neither the
\* input file configured nor a file saved, nor anything but the error code
HotStartFilesKept ==
    /\ eng' = [eng EXCEPT !.ErrorCode = eng'.ErrorCode]
    /\ "hotstart_save_to_file" \notin last'.did
    /\ "hotstart_is_valid" \notin last'.did

----------------------------------------------------------------------------
(* Properties of the run facade with a progress callback *)

\* the callback was called after a step of the run
Notified == run.notified /\ last.op = "step"

\* C31: every progress value that swmm_run_with_callback passes to the
\* callback lies in [0, 1], the value of the call after the horizon is reached
\* included.
C31_ProgressInUnitInterval == Notified => InUnitInterval(run.progress)

----------------------------------------------------------------------------
(* Properties of the Solver class *)

\* initialize was called on a Solver in state CREATED or CLOSED
InitializeCalled == solver.op = "initialize" /\ solver.from \in {"CREATED", "CLOSED"}

\* C32: on a Solver whose state is CREATED or CLOSED, initialize opens the
\* project, starts the simulation and leaves the Solver in state STARTED
\* unless the engine reports an error; it raises a state error only when
\* called in another state.
C32_InitializeStarts ==
    InitializeCalled
        => \/ ~solver.raised /\ solver._solver_state = "STARTED"
              /\ eng.IsOpenFlag /\ eng.IsStartedFlag
           \/ solver.raised /\ eng.ErrorCode # 0

----------------------------------------------------------------------------
(* Properties of the runoff and routing times within a step *)

\* a step of a started simulation has returned
SteppedStarted == Returned("step") /\ pre.IsStartedFlag /\ pre.ErrorCode = 0

\* C33: at the end of every step of a started simulation the runoff time is
\* at or past the routing time.
C33_RunoffAheadOfRouting ==
    SteppedStarted => eng.NewRunoffTime >= eng.NewRoutingTime

\* the place of what acts in a step, in the order of the specification:
\* runoff, routing, the reporting decision, the hot-start save
StageRank(stage) ==
    CASE stage \in {"runoff_execute", "climate_setState"} -> 1
      [] stage \in {"routing_execute", "NewRoutingTime", "ERR_TIMESTEP"} -> 2
      [] stage = "saveResults" -> 3
      [] stage = "hotstart_save" -> 4

\* the stages of t act in the order runoff, routing, reporting, hot start; the
\* routing finds the runoff at or past the routing instant it aims at; the
\* reporting decision is taken on the routing time that the step ends with;
\* the hot-start save finds the engine that the step ends with
InStepOrder(e, t) ==
    LET end == Left(e, t)
        before(i) == IF i = 1 THEN e ELSE t[i - 1].e
    IN  /\ \A i, j \in 1..Len(t) :
              i < j => StageRank(t[i].stage) < StageRank(t[j].stage)
        /\ \A i \in 1..Len(t) :
              /\ (t[i].stage \in {"routing_execute", "NewRoutingTime"} /\ e.DoRunoff)
                    => before(i).NewRunoffTime
                          >= MIN(t[i].e.NewRoutingTime, e.RoutingDuration)
              /\ t[i].stage = "saveResults"
                    => /\ before(i).NewRoutingTime = end.NewRoutingTime
                       /\ (t[i].e.ReportTime # before(i).ReportTime
                              <=> end.NewRoutingTime >= e.ReportTime)
              /\ t[i].stage = "hotstart_save"
                    => /\ i = Len(t)
                       /\ before(i).Nperiods = end.Nperiods
                       /\ before(i).ReportTime = end.ReportTime

\* a step can be called on a started simulation without error
CanStep == pc = "idle" /\ eng.IsOpenFlag /\ eng.IsStartedFlag /\ eng.ErrorCode = 0

----------------------------------------------------------------------------
(* Properties of the kernels that start opens and end closes *)

\* the kernels of the claim
EndedKernels == {"rain", "runoff", "routing", "massbal", "stats", "hotstart"}

\* the kernels whose close routine the last call made
ClosedBy(l) == {k \in EndedKernels : CloseOf(k) \in l.did}

\* a call of swmm_end between two calls of the API
EndCalled == pc = "idle" /\ pc' = "idle" /\ last'.op = "end"

----------------------------------------------------------------------------
(* Properties of the link setting *)

\* a write of a setting has reached setLinkSetting with a link that takes it
LinkSettingWritten ==
    /\ pc = "idle" /\ last.op \in {"setValue", "setValueExpanded"}
    /\ prop.set.property = "swmm_LINK_SETTING"
    /\ last.op = "setValueExpanded" => prop.set.index = swmm_LINK
    /\ pre.IsOpenFlag
    /\ InRange(prop.set.index, eng.NLink)
    /\ eng.Link[prop.set.index].type # "CONDUIT"
    /\ prop.set.value >= 0

\* the link before and after the write, the value written and the time of
\* the write
LinkBefore == prop.before.Link[prop.set.index]
LinkAfter == eng.Link[prop.set.index]
LinkTarget ==
    IF LinkBefore.type # "PUMP" /\ prop.set.value > 1 THEN 1 ELSE prop.set.value
LinkWriteTime == Ticks(prop.before.StartDateTime) + prop.before.ElapsedTime

\* C36 as stated: a link-setting write stores the new target setting; it
\* stamps timeLastSet if and only if the new target differs from the link's
\* current setting and exactly one of the two is zero, and leaves timeLastSet
\* unchanged otherwise.
C36_StampOnTransition ==
    LinkSettingWritten
        => /\ LinkAfter.targetSetting = LinkTarget
           /\ IF stamps_onTransition(LinkTarget, LinkBefore.setting)
              THEN "timeLastSet" \in last.did
                   /\ LinkAfter.timeLastSet = LinkWriteTime
              ELSE "timeLastSet" \notin last.did
                   /\ LinkAfter.timeLastSet = LinkBefore.timeLastSet

\* C36 amended: a link-setting write that names the target the link already
\* has changes nothing; any other write stores the new target and stamps
\* timeLastSet if and only if the new target or the link's current setting is
\* zero, and leaves timeLastSet unchanged otherwise; the write leaves the
\* setting itself to the kernel.
C36_StampOnZeroProduct ==
    LinkSettingWritten
        => IF LinkTarget = LinkBefore.targetSetting
           THEN LinkAfter = LinkBefore /\ "timeLastSet" \notin last.did
           ELSE /\ LinkAfter.targetSetting = LinkTarget
                /\ LinkAfter.setting = LinkBefore.setting
                /\ IF LinkTarget = 0 \/ LinkBefore.setting = 0
                   THEN "timeLastSet" \in last.did
                        /\ LinkAfter.timeLastSet = LinkWriteTime
                   ELSE "timeLastSet" \notin last.did
                        /\ LinkAfter.timeLastSet = LinkBefore.timeLastSet

\* a link closed by a step, whose opening is pending, is given the target 0:
\* the write stamps timeLastSet although the target is the current setting
C36_Witness ==
    /\ LinkSettingWritten /\ prop.before.ElapsedTime > 0
    /\ LinkBefore.setting = 0 /\ LinkBefore.targetSetting = 1 /\ LinkTarget = 0
    /\ "timeLastSet" \in last.did
    /\ LinkAfter.timeLastSet = LinkWriteTime /\ LinkWriteTime > 0

----------------------------------------------------------------------------
(* Properties of the resources of a reader handle *)

\* C37: the resources of a reader handle are released once, by close: after
\* an open that returned an error the handle the caller holds is still valid
\* for check_error and close, and close is never given memory already freed.
C37_ReleasedOnceByClose ==
    /\ (smoLast.op = "open" /\ smoLast.ret # 0) => SmoLive
    /\ smo.state # "freed"
    /\ smoLast.op = "close" => (smo.state = "null" /\ smoLast.before.state # "freed")

----------------------------------------------------------------------------
(* Properties of the result queries *)

ResultQueries ==
    {"getSubcatchResult", "getNodeResult", "getLinkResult", "getSystemResult"}

\* a result query has returned an error code
ResultQueryFailed ==
    smoLast.op \in ResultQueries /\ smo.state = "open" /\ smoLast.ret # 0

\* C38: a result query that returns a non-zero error code (period or index
\* out of range, allocation failure) has read nothing from the file and has
\* assigned neither its output array nor its length, the system result query
\* like those of subcatchments, nodes and links.
C38_ErrorReadsAndAssignsNothing ==
    ResultQueryFailed => (smoLast.reads = {} /\ ~smoLast.assigned)

----------------------------------------------------------------------------
(* Sub-indexes of the pollutant properties *)

\* a set of a pollutant property of an existing object of its class
PollutantSet ==
    /\ last.op = "setValueExpanded"
    /\ prop.set.property \in PollutantProperties
    /\ StoresPollutant(prop.before, prop.set.property, prop.set.index)

\* the pollutant array of the object that the set names
PollutantArray(e) ==
    CASE prop.set.index = swmm_SUBCATCH -> e.Subcatch[prop.set.index].apiExtBuildup
      [] prop.set.index = swmm_NODE -> e.Node[prop.set.index].apiExtQualMassFlux
      [] OTHER -> e.Link[prop.set.index].apiExtQualMassFlux

\* C39: a set of a per-pollutant property with a sub-index outside
\* [0, pollutant count) is rejected with the index error and stores nothing,
\* before a simulation is started as during one.
C39_PollutantSubIndexChecked ==
    (PollutantSet /\ ~InRange(prop.set.subIndex, prop.before.NPollut))
        => (last.ret = ERR_API_OBJECT_INDEX /\ "wild_store" \notin last.did)

----------------------------------------------------------------------------
(* Termination of the step loop *)

\* the last call was a swmm_step, and no run has begun since
Stepped == last.op = "step" /\ run.pc \in {"step", "end", "done"}

\* what a step does to the routing time, the error code and the elapsed time
StepAdvancesOrStops ==
    Stepped =>
        /\ \/ eng.NewRoutingTime >= pre.NewRoutingTime + TicksPerMs
           \/ eng.ErrorCode # 0
           \/ last.elapsed = 0
        /\ pre.ErrorCode # 0 =>
               (last.elapsed = 0 /\ last.ret = pre.ErrorCode
                /\ eng.ErrorCode = pre.ErrorCode)

====
